---- MODULE Spec2Model ----
(***************************************************************************)
(* Connection & messaging core of the wearable firmware                    *)
(* (packages/wearable/src).  The model holds the ConnectionManager object, *)
(* the connection flags of the BLEManager object, the millisecond clock    *)
(* and the firmware's setup()/loop() and button handler.  Every public     *)
(* operation of ConnectionManager is an action of its own, so that the     *)
(* object is exercised under every sequence of calls, together with the    *)
(* calls main.cpp makes.  cm.op names the operation called last and        *)
(* cm.fired lists the callbacks that call invoked, in order.               *)
(*                                                                         *)
(* Times are milliseconds as returned by millis(), a uint32_t.  A uint32_t  *)
(* value v is held as the integer congruent to v modulo 2^32 that lies in  *)
(* -2^31 .. 2^31 - 1 (values from 2^31 on are held as v - 2^32), because    *)
(* the integers of the model checker are 32 bits wide.  Sub32, Add32 and   *)
(* Gt32 are the uint32_t subtraction, addition and comparison on that      *)
(* representation.  Where the clock starts at 0 and stays far below 2^31   *)
(* they are the plain difference, sum and comparison.                      *)
(***************************************************************************)
EXTENDS Integers, Sequences, FiniteSets, TLC

VARIABLES
    cm,           \* the ConnectionManager object (connection_manager.h:18-27,
                  \* 67-70), with the last call (op) and what it invoked (fired)
    ble,          \* the BLEManager connection flags (ble_manager.h:21-22) and
                  \* whether the BLE stack is advertising
    now,          \* millis()
    systemReady,  \* main.cpp:28
    msg,          \* the messaging side: the characteristics and lastHeartbeat
                  \* of BLEManager (ble_manager.h:16-18, 23), the static
                  \* counter of Protocol::generateMessageId, the timers of
                  \* main.cpp, the position of the main thread inside
                  \* sendAudioData, and what the last operation wrote
    codec         \* the arguments, output parameters and return value of
                  \* the Protocol functions when they are applied on their own

vars == <<cm, ble, now, systemReady, msg, codec>>

(***************************************************************************)
(* Bounds of the model.                                                    *)
(***************************************************************************)
\* the clock advances in steps of ClockStep up to MaxNow
ClockStep == 20000
MaxNow == 100000
\* where no peer ever attaches the clock advances in steps of BackoffStep up
\* to MaxBackoffNow
BackoffStep == 10000
MaxBackoffNow == 350000
\* where the clock wraps it starts WrapLead before 2^32, and the timestamps
\* of the state machine are then 0 or WrapAge old
WrapLead == 40000
WrapAge == 20000
\* arguments tried for setReconnectInterval / setMaxReconnectAttempts
IntervalChoices == {20000, 40000}
AttemptChoices == {2}
\* argument tried for setHeartbeatInterval
HeartbeatChoices == {10000}
\* the message id counter stops at MaxCounter
MaxCounter == 2
\* arguments tried for sendCommand / sendStatus / sendAudioData, and the
\* size of a completed recording
CommandChoices == {"button_click"}
StatusChoices == {"recording", "charging"}
\* arguments tried for sendStatus where the status strings are the subject
StatusArguments ==
    {"ready", "recording", "processing", "low_battery", "error", "disconnected",
     "charging", "test_status", ""}
AudioLengths == {0, 1, 512, 1024, 1500}
RecordedBytes == 600
\* arguments tried for createCommandMessage / createStatusMessage
CodecCommands ==
    {"start_recording", "stop_recording", "haptic_feedback", "set_sensitivity",
     "calibrate", "sleep", "wake", "reset", "test_command"}
CodecData == {"", "test_data"}
\* audio payloads tried for encodeAudioData: every payload of at most two
\* bytes of AudioBytes, and payloads of the lengths LongLengths whose bytes
\* run through the values from a seed; the caller's buffer for
\* decodeAudioData holds AudioCapacity bytes
AudioBytes == {0, 9, 10, 15, 16, 171, 255}
LongLengths == {63, 64, 65, 128, 129}
AudioSeeds == {0, 250}
AudioCapacity == 130

(***************************************************************************)
(* enum ConnectionState                                                    *)
(***************************************************************************)
CONN_DISCONNECTED == "CONN_DISCONNECTED"
CONN_ADVERTISING == "CONN_ADVERTISING"
CONN_CONNECTING == "CONN_CONNECTING"
CONN_CONNECTED == "CONN_CONNECTED"
CONN_RECONNECTING == "CONN_RECONNECTING"
CONN_ERROR == "CONN_ERROR"

ConnectionState ==
    {CONN_DISCONNECTED, CONN_ADVERTISING, CONN_CONNECTING, CONN_CONNECTED,
     CONN_RECONNECTING, CONN_ERROR}

Min(a, b) == IF a < b THEN a ELSE b

(***************************************************************************)
(* uint32_t arithmetic, worked out on the two 16-bit halves of the         *)
(* operands so that no intermediate result leaves the 32 bits.             *)
(***************************************************************************)
HalfWord == 65536

\* the value whose upper half is hi (0 .. HalfWord - 1) and lower half lo
Word32(hi, lo) == (IF 2 * hi >= HalfWord THEN hi - HalfWord ELSE hi) * HalfWord + lo

\* a - b on uint32_t
Sub32(a, b) ==
    LET lo == (a % HalfWord) - (b % HalfWord)
        borrow == IF lo < 0 THEN 1 ELSE 0
    IN  Word32(((a \div HalfWord) - (b \div HalfWord) - borrow) % HalfWord,
               lo % HalfWord)

\* a + b on uint32_t
Add32(a, b) ==
    LET lo == (a % HalfWord) + (b % HalfWord)
        carry == IF lo >= HalfWord THEN 1 ELSE 0
    IN  Word32(((a \div HalfWord) + (b \div HalfWord) + carry) % HalfWord,
               lo % HalfWord)

\* a > b on uint32_t
Gt32(a, b) == IF (a < 0) = (b < 0) THEN a > b ELSE a < 0

(***************************************************************************)
(* ConnectionManager.  Every operator takes the object c (and the value t  *)
(* of millis() during the call) and returns the object after the call.     *)
(***************************************************************************)
ConnectionManagerCtor ==
    [currentState |-> CONN_DISCONNECTED,
     lastConnectionAttempt |-> 0,
     reconnectInterval |-> 1000,
     maxReconnectInterval |-> 30000,
     connectionTimeout |-> 10000,
     lastHeartbeat |-> 0,
     heartbeatInterval |-> 30000,
     heartbeatTimeout |-> 60000,
     reconnectAttempts |-> 0,
     maxReconnectAttempts |-> 10,
     onConnected |-> FALSE,
     onDisconnected |-> FALSE,
     onReconnecting |-> FALSE,
     onConnectionFailed |-> FALSE,
     op |-> "ConnectionManager",
     fired |-> <<>>]

\* the callback cb is invoked
Fire(c, cb) == [c EXCEPT !.fired = Append(@, cb)]

\* start of the call op: nothing invoked yet
Call(c, op) == [c EXCEPT !.op = op, !.fired = <<>>]

updateHeartbeat(c, t) == [c EXCEPT !.lastHeartbeat = t]

\* faulty variant of isHeartbeatTimeout: measured against heartbeatInterval
isHeartbeatTimeout_usesInterval(c, t) ==
    Gt32(Sub32(t, c.lastHeartbeat), c.heartbeatInterval)

isHeartbeatTimeout(c, t) == Gt32(Sub32(t, c.lastHeartbeat), c.heartbeatTimeout)

\* faulty variant of shouldReconnect: the clock is compared with the time
\* at which the interval ends
shouldReconnect_comparesDeadline(c, t) ==
    Gt32(t, Add32(c.lastConnectionAttempt, c.reconnectInterval))

shouldReconnect(c, t) == Gt32(Sub32(t, c.lastConnectionAttempt), c.reconnectInterval)

\* faulty variant of incrementReconnectInterval: the interval is not capped
incrementReconnectInterval_uncapped(c) ==
    [c EXCEPT !.reconnectInterval = c.reconnectInterval * 2]

incrementReconnectInterval(c) ==
    [c EXCEPT !.reconnectInterval = Min(c.reconnectInterval * 2, c.maxReconnectInterval)]

resetReconnectInterval(c) == [c EXCEPT !.reconnectInterval = 1000]

\* main.cpp: the function registered as onConnected
onBLEConnected(c, t) == updateHeartbeat(c, t)

\* setState(): the body of `if (currentState != state)`
setStateTransition(c, state, t) ==
    LET previousState == c.currentState
        c1 == [c EXCEPT !.currentState = state]
    IN  CASE state = CONN_CONNECTED ->
               LET c2 == resetReconnectInterval(c1)
                   c3 == [c2 EXCEPT !.reconnectAttempts = 0]
                   c4 == updateHeartbeat(c3, t)
               IN  IF c4.onConnected
                   THEN onBLEConnected(Fire(c4, "onConnected"), t)
                   ELSE c4
          [] state = CONN_DISCONNECTED ->
               IF previousState = CONN_CONNECTED /\ c1.onDisconnected
               THEN Fire(c1, "onDisconnected")
               ELSE c1
          [] state = CONN_RECONNECTING ->
               IF c1.onReconnecting THEN Fire(c1, "onReconnecting") ELSE c1
          [] OTHER -> c1

\* faulty variant of setState: the transition is applied even when the state
\* does not change
setState_unguarded(c, state, t) == setStateTransition(c, state, t)

setState(c, state, t) ==
    IF c.currentState # state THEN setStateTransition(c, state, t) ELSE c

\* ConnectionManager::startAdvertising only marks the attempt time
cmStartAdvertising(c, t) == [c EXCEPT !.lastConnectionAttempt = t]

\* faulty variant of begin: reconnectAttempts is kept
begin_keepsAttempts(c) ==
    resetReconnectInterval([c EXCEPT !.currentState = CONN_DISCONNECTED])

begin(c) ==
    resetReconnectInterval(
        [c EXCEPT !.currentState = CONN_DISCONNECTED, !.reconnectAttempts = 0])

\* update(): case CONN_DISCONNECTED
updateDisconnected(c, t) ==
    IF shouldReconnect(c, t) THEN setState(c, CONN_RECONNECTING, t) ELSE c

\* faulty variant of updateAdvertising: the attempt timeout marks the time
updateAdvertising_marksTimeout(c, t) ==
    IF Gt32(Sub32(t, c.lastConnectionAttempt), c.connectionTimeout)
    THEN setState([c EXCEPT !.lastConnectionAttempt = t], CONN_RECONNECTING, t)
    ELSE c

\* update(): case CONN_ADVERTISING and case CONN_CONNECTING
updateAdvertising(c, t) ==
    IF Gt32(Sub32(t, c.lastConnectionAttempt), c.connectionTimeout)
    THEN setState(c, CONN_RECONNECTING, t)
    ELSE c

updateConnecting(c, t) ==
    IF Gt32(Sub32(t, c.lastConnectionAttempt), c.connectionTimeout)
    THEN setState(c, CONN_RECONNECTING, t)
    ELSE c

\* update(): case CONN_CONNECTED
updateConnected(c, t) ==
    IF isHeartbeatTimeout(c, t) THEN setState(c, CONN_DISCONNECTED, t) ELSE c

\* faulty variant of updateReconnecting: the attempt count is looked at before
\* the backoff interval
updateReconnecting_countFirst(c, t) ==
    IF c.reconnectAttempts >= c.maxReconnectAttempts
    THEN LET c1 == setState(c, CONN_ERROR, t)
         IN  IF c1.onConnectionFailed
             THEN Fire(c1, "onConnectionFailed")
             ELSE c1
    ELSE IF Gt32(Sub32(t, c.lastConnectionAttempt), c.reconnectInterval)
    THEN LET c1 == cmStartAdvertising(c, t)
             c2 == [c1 EXCEPT !.reconnectAttempts = @ + 1]
             c3 == incrementReconnectInterval(c2)
             c4 == [c3 EXCEPT !.lastConnectionAttempt = t]
         IN  setState(c4, CONN_ADVERTISING, t)
    ELSE c

\* update(): case CONN_RECONNECTING
updateReconnecting(c, t) ==
    IF Gt32(Sub32(t, c.lastConnectionAttempt), c.reconnectInterval)
    THEN IF c.reconnectAttempts < c.maxReconnectAttempts
         THEN LET c1 == cmStartAdvertising(c, t)
                  c2 == [c1 EXCEPT !.reconnectAttempts = @ + 1]
                  c3 == incrementReconnectInterval(c2)
                  c4 == [c3 EXCEPT !.lastConnectionAttempt = t]
              IN  setState(c4, CONN_ADVERTISING, t)
         ELSE LET c1 == setState(c, CONN_ERROR, t)
              IN  IF c1.onConnectionFailed
                  THEN Fire(c1, "onConnectionFailed")
                  ELSE c1
    ELSE c

\* faulty variant of updateError: the Error case retries once the backoff
\* interval has elapsed
updateError_retries(c, t) ==
    IF Gt32(Sub32(t, c.lastConnectionAttempt), c.reconnectInterval)
    THEN setState(c, CONN_RECONNECTING, t)
    ELSE c

\* update(): case CONN_ERROR, "stay in error state until manually reset"
updateError(c, t) == c

update(c, t) ==
    CASE c.currentState = CONN_DISCONNECTED -> updateDisconnected(c, t)
      [] c.currentState = CONN_ADVERTISING -> updateAdvertising(c, t)
      [] c.currentState = CONN_CONNECTING -> updateConnecting(c, t)
      [] c.currentState = CONN_CONNECTED -> updateConnected(c, t)
      [] c.currentState = CONN_RECONNECTING -> updateReconnecting(c, t)
      [] c.currentState = CONN_ERROR -> updateError(c, t)

disconnect(c, t) == setState(c, CONN_DISCONNECTED, t)

\* faulty variant of reconnect: reconnectAttempts is kept
reconnect_keepsAttempts(c, t) ==
    setState(resetReconnectInterval(c), CONN_RECONNECTING, t)

reconnect(c, t) ==
    setState(resetReconnectInterval([c EXCEPT !.reconnectAttempts = 0]),
             CONN_RECONNECTING, t)

isConnected(c) == c.currentState = CONN_CONNECTED

setReconnectInterval(c, intervalMs) == [c EXCEPT !.reconnectInterval = intervalMs]

setMaxReconnectAttempts(c, attempts) == [c EXCEPT !.maxReconnectAttempts = attempts]

setHeartbeatInterval(c, intervalMs) == [c EXCEPT !.heartbeatInterval = intervalMs]

(***************************************************************************)
(* BLEManager: connection flags.                                           *)
(***************************************************************************)
BLEManagerCtor ==
    [deviceConnected |-> FALSE, oldDeviceConnected |-> FALSE, advertising |-> FALSE]

bleStartAdvertising(b) == [b EXCEPT !.advertising = TRUE]

bleStopAdvertising(b) == [b EXCEPT !.advertising = FALSE]

bleBegin(b) == bleStartAdvertising(b)

onConnect(b) == bleStopAdvertising([b EXCEPT !.deviceConnected = TRUE])

onDisconnect(b) == [b EXCEPT !.deviceConnected = FALSE]

bleUpdate(b) ==
    LET b1 == IF ~b.deviceConnected /\ b.oldDeviceConnected
              THEN [b EXCEPT !.advertising = TRUE,
                             !.oldDeviceConnected = b.deviceConnected]
              ELSE b
    IN  IF b1.deviceConnected /\ ~b1.oldDeviceConnected
        THEN [b1 EXCEPT !.oldDeviceConnected = b1.deviceConnected]
        ELSE b1

(***************************************************************************)
(* Protocol (protocol.h, protocol.cpp).  A JSON document is a record from  *)
(* member names to values; JSON text is [object |-> doc] when it is a      *)
(* serialized object and [garbage |-> s] when it is text that              *)
(* deserializeJson rejects.  A String is a TLA+ string.                    *)
(***************************************************************************)
MSG_COMMAND == "MSG_COMMAND"
MSG_STATUS == "MSG_STATUS"
MSG_AUDIO_DATA == "MSG_AUDIO_DATA"
MSG_HEARTBEAT == "MSG_HEARTBEAT"
MSG_ERROR == "MSG_ERROR"
MSG_ACK == "MSG_ACK"

CMD_START_RECORDING == "CMD_START_RECORDING"
CMD_STOP_RECORDING == "CMD_STOP_RECORDING"
CMD_HAPTIC_FEEDBACK == "CMD_HAPTIC_FEEDBACK"
CMD_SET_SENSITIVITY == "CMD_SET_SENSITIVITY"
CMD_CALIBRATE == "CMD_CALIBRATE"
CMD_SLEEP == "CMD_SLEEP"
CMD_WAKE == "CMD_WAKE"
CMD_RESET == "CMD_RESET"

STATUS_READY == "STATUS_READY"
STATUS_RECORDING == "STATUS_RECORDING"
STATUS_PROCESSING == "STATUS_PROCESSING"
STATUS_LOW_BATTERY == "STATUS_LOW_BATTERY"
STATUS_ERROR == "STATUS_ERROR"
STATUS_DISCONNECTED == "STATUS_DISCONNECTED"

StatusType ==
    {STATUS_READY, STATUS_RECORDING, STATUS_PROCESSING, STATUS_LOW_BATTERY,
     STATUS_ERROR, STATUS_DISCONNECTED}

ERROR_NONE == 0
ERROR_AUDIO_INIT == 1
ERROR_BLE_INIT == 2
ERROR_HAPTIC_INIT == 3
ERROR_ACCEL_INIT == 4
ERROR_LOW_MEMORY == 5
ERROR_INVALID_COMMAND == 6
ERROR_TIMEOUT == 7

\* the empty String, as JSON text and as the initial value of a String
\* that holds JSON text
EmptyText == [garbage |-> ""]

\* the String made from a member that the document does not have
NullString == "null"

serializeJson(doc) == [object |-> doc]

\* deserializeJson: the error flag and the document
deserializeJson(json) ==
    IF "object" \in DOMAIN json
    THEN [error |-> FALSE, doc |-> json.object]
    ELSE [error |-> TRUE, doc |-> [null |-> NullString]]

\* String s = doc[key]
Member(doc, key) == IF key \in DOMAIN doc THEN doc[key] ELSE NullString

\* doc.remove(key)
Remove(doc, key) == [k \in DOMAIN doc \ {key} |-> doc[k]]

\* ESP.getChipId() in hexadecimal, Protocol::getBatteryVoltage(),
\* ESP.getFreeHeap(): readings of the hardware
ChipId == "chipid"
getBatteryVoltage == "battery_voltage"
getFreeHeap == "free_heap"

\* faulty variant of generateMessageId: the static counter is not written back
generateMessageId_reusesCounter(counter) ==
    [counter |-> counter, id |-> <<ChipId, counter + 1>>]

\* generateMessageId: the static counter after the call, and the id made
\* from it
generateMessageId(counter) ==
    [counter |-> counter + 1, id |-> <<ChipId, counter + 1>>]

\* the create functions return the static counter after the call and the
\* text; t is millis() (getTimestamp)
createCommandMessage(counter, command, data, t) ==
    LET g == generateMessageId(counter)
        doc == [type |-> "command", id |-> g.id, timestamp |-> t,
                command |-> command, battery |-> getBatteryVoltage]
    IN  [counter |-> g.counter,
         text |-> serializeJson(IF data # "" THEN doc @@ [data |-> data] ELSE doc)]

\* createStatusMessage: the switch from the enum to the status string
statusString(status) ==
    CASE status = STATUS_READY -> "ready"
      [] status = STATUS_RECORDING -> "recording"
      [] status = STATUS_PROCESSING -> "processing"
      [] status = STATUS_LOW_BATTERY -> "low_battery"
      [] status = STATUS_ERROR -> "error"
      [] status = STATUS_DISCONNECTED -> "disconnected"
      [] OTHER -> "unknown"

createStatusMessage(counter, status, data, t) ==
    LET g == generateMessageId(counter)
        doc == [type |-> "status", id |-> g.id, timestamp |-> t,
                battery |-> getBatteryVoltage, status |-> statusString(status)]
    IN  [counter |-> g.counter,
         text |-> serializeJson(IF data # "" THEN doc @@ [data |-> data] ELSE doc)]

\* createErrorMessage: the default descriptions
defaultDescription(error) ==
    CASE error = ERROR_AUDIO_INIT -> "Failed to initialize audio system"
      [] error = ERROR_BLE_INIT -> "Failed to initialize Bluetooth"
      [] error = ERROR_HAPTIC_INIT -> "Failed to initialize haptic feedback"
      [] error = ERROR_ACCEL_INIT -> "Failed to initialize accelerometer"
      [] error = ERROR_LOW_MEMORY -> "Insufficient memory available"
      [] error = ERROR_INVALID_COMMAND -> "Invalid command received"
      [] error = ERROR_TIMEOUT -> "Operation timed out"
      [] OTHER -> "Unknown error"

createErrorMessage(counter, error, description, t) ==
    LET g == generateMessageId(counter)
    IN  [counter |-> g.counter,
         text |-> serializeJson(
             [type |-> "error", id |-> g.id, timestamp |-> t,
              error_code |-> error, battery |-> getBatteryVoltage,
              description |-> IF description # "" THEN description
                              ELSE defaultDescription(error)])]

createHeartbeatMessage(counter, t) ==
    LET g == generateMessageId(counter)
    IN  [counter |-> g.counter,
         text |-> serializeJson(
             [type |-> "heartbeat", id |-> g.id, timestamp |-> t,
              battery |-> getBatteryVoltage, uptime |-> t,
              free_heap |-> getFreeHeap])]

\* parseMessage: the chain of comparisons of typeStr
messageTypeOf ==
    [command |-> MSG_COMMAND, status |-> MSG_STATUS, audio_data |-> MSG_AUDIO_DATA,
     heartbeat |-> MSG_HEARTBEAT, error |-> MSG_ERROR, ack |-> MSG_ACK]

\* faulty variant of parseMessage: the payload is extracted before the kind
\* is looked at
parseMessage_extractsFirst(json, type, payload) ==
    LET d == deserializeJson(json)
        typeStr == Member(d.doc, "type")
    IN  IF d.error
        THEN [ok |-> FALSE, type |-> type, payload |-> payload]
        ELSE IF typeStr \in DOMAIN messageTypeOf
        THEN [ok |-> TRUE, type |-> messageTypeOf[typeStr],
              payload |-> serializeJson(Remove(d.doc, "type"))]
        ELSE [ok |-> FALSE, type |-> type,
              payload |-> serializeJson(Remove(d.doc, "type"))]

\* parseMessage(json, type, payload): the return value and the two output
\* parameters after the call; type and payload are their values before it
parseMessage(json, type, payload) ==
    LET d == deserializeJson(json)
        typeStr == Member(d.doc, "type")
    IN  IF d.error
        THEN [ok |-> FALSE, type |-> type, payload |-> payload]
        ELSE IF typeStr \in DOMAIN messageTypeOf
        THEN [ok |-> TRUE, type |-> messageTypeOf[typeStr],
              payload |-> serializeJson(Remove(d.doc, "type"))]
        ELSE [ok |-> FALSE, type |-> type, payload |-> payload]

\* faulty variant of commandTypeOf: "wake" is taken for CMD_SLEEP
commandTypeOf_aliased ==
    [start_recording |-> CMD_START_RECORDING, stop_recording |-> CMD_STOP_RECORDING,
     haptic_feedback |-> CMD_HAPTIC_FEEDBACK, set_sensitivity |-> CMD_SET_SENSITIVITY,
     calibrate |-> CMD_CALIBRATE, sleep |-> CMD_SLEEP, wake |-> CMD_SLEEP,
     reset |-> CMD_RESET]

\* parseCommand: the chain of comparisons of commandStr
commandTypeOf ==
    [start_recording |-> CMD_START_RECORDING, stop_recording |-> CMD_STOP_RECORDING,
     haptic_feedback |-> CMD_HAPTIC_FEEDBACK, set_sensitivity |-> CMD_SET_SENSITIVITY,
     calibrate |-> CMD_CALIBRATE, sleep |-> CMD_SLEEP, wake |-> CMD_WAKE,
     reset |-> CMD_RESET]

\* faulty variant of parseCommand: the data member is not read
parseCommand_dropsData(payload, command, data) ==
    LET d == deserializeJson(payload)
        commandStr == Member(d.doc, "command")
    IN  IF d.error
        THEN [ok |-> FALSE, command |-> command, data |-> data]
        ELSE IF commandStr \in DOMAIN commandTypeOf
        THEN [ok |-> TRUE, command |-> commandTypeOf[commandStr], data |-> ""]
        ELSE [ok |-> FALSE, command |-> command, data |-> data]

parseCommand(payload, command, data) ==
    LET d == deserializeJson(payload)
        commandStr == Member(d.doc, "command")
    IN  IF d.error
        THEN [ok |-> FALSE, command |-> command, data |-> data]
        ELSE IF commandStr \in DOMAIN commandTypeOf
        THEN [ok |-> TRUE, command |-> commandTypeOf[commandStr],
              data |-> IF "data" \in DOMAIN d.doc THEN d.doc.data ELSE ""]
        ELSE [ok |-> FALSE, command |-> command, data |-> data]

\* parseStatus: the chain of comparisons of statusStr
statusTypeOf ==
    [ready |-> STATUS_READY, recording |-> STATUS_RECORDING,
     processing |-> STATUS_PROCESSING, low_battery |-> STATUS_LOW_BATTERY,
     error |-> STATUS_ERROR, disconnected |-> STATUS_DISCONNECTED]

parseStatus(payload, status, data) ==
    LET d == deserializeJson(payload)
        statusStr == Member(d.doc, "status")
    IN  IF d.error
        THEN [ok |-> FALSE, status |-> status, data |-> data]
        ELSE IF statusStr \in DOMAIN statusTypeOf
        THEN [ok |-> TRUE, status |-> statusTypeOf[statusStr],
              data |-> IF "data" \in DOMAIN d.doc THEN d.doc.data ELSE ""]
        ELSE [ok |-> FALSE, status |-> status, data |-> data]

(***************************************************************************)
(* Protocol: audio payloads.  A String is here the sequence of its         *)
(* characters, a payload the sequence of its bytes (0 .. 255).             *)
(***************************************************************************)
HexDigits ==
    <<"0", "1", "2", "3", "4", "5", "6", "7", "8", "9", "a", "b", "c", "d", "e", "f">>

\* String(value, HEX): the hexadecimal digits of value, no leading zero
HexString(value) ==
    IF value < 16
    THEN <<HexDigits[value + 1]>>
    ELSE <<HexDigits[(value \div 16) + 1], HexDigits[(value % 16) + 1]>>

\* faulty variant of appendByte: a byte below 16 is not padded
appendByte_unpadded(encoded, byte) == encoded \o HexString(byte)

\* encodeAudioData: what one iteration appends for data[i]; a byte below 16
\* gets a "0" put before its only digit
appendByte(encoded, byte) ==
    LET e == encoded \o HexString(byte)
    IN  IF byte < 16
        THEN SubSeq(e, 1, Len(e) - 1) \o <<"0">> \o SubSeq(e, Len(e), Len(e))
        ELSE e

\* encodeAudioData: what the iteration for data[i] (i counted from 0) adds
\* to encoded; it reads nothing of encoded but what it has added itself
iterationOf(data, i) ==
    appendByte(IF i > 0 /\ i % 64 = 0 THEN <<"\n">> ELSE <<>>, data[i + 1])

\* encodeAudioData: what the iterations from index lo up to index hi add,
\* one after the other
RECURSIVE encodeRange(_, _, _)
encodeRange(data, lo, hi) ==
    IF lo > hi THEN <<>>
    ELSE IF lo = hi THEN iterationOf(data, lo)
    ELSE LET mid == (lo + hi) \div 2
         IN  encodeRange(data, lo, mid) \o encodeRange(data, mid + 1, hi)

encodeAudioData(data) == encodeRange(data, 0, Len(data) - 1)

\* the value of a hexadecimal digit, -1 for any other character
hexValue(ch) ==
    IF \E v \in 1..16 : HexDigits[v] = ch
    THEN (CHOOSE v \in 1..16 : HexDigits[v] = ch) - 1
    ELSE -1

\* (uint8_t)strtol(byteStr, NULL, 16) for a byteStr of two characters: the
\* digits up to the first character that is none
strtol16(byteStr) ==
    IF hexValue(byteStr[1]) < 0 THEN 0
    ELSE IF hexValue(byteStr[2]) < 0 THEN hexValue(byteStr[1])
    ELSE hexValue(byteStr[1]) * 16 + hexValue(byteStr[2])

\* cleaned.replace("\n", ""); cleaned.replace(" ", "")
cleanedOf(encoded) == SelectSeq(encoded, LAMBDA ch : ch \notin {"\n", " "})

\* decodeAudioData(encoded, buffer, length): the return value and the two
\* output parameters after the call; buffer and length are their values
\* before it
decodeAudioData(encoded, buffer, length) ==
    LET cleaned == cleanedOf(encoded)
    IN  IF Len(cleaned) % 2 # 0
        THEN [ok |-> FALSE, buffer |-> buffer, length |-> length]
        ELSE [ok |-> TRUE,
              length |-> Len(cleaned) \div 2,
              buffer |-> [i \in DOMAIN buffer |->
                             IF i <= Len(cleaned) \div 2
                             THEN strtol16(SubSeq(cleaned, 2 * i - 1, 2 * i))
                             ELSE buffer[i]]]

\* what the peer writes
InboundWrites ==
    {EmptyText,
     [garbage |-> "not json"],
     serializeJson([type |-> "bogus"]),
     serializeJson([command |-> "sleep"]),
     serializeJson([type |-> "command", command |-> "unknown_xyz"]),
     serializeJson([type |-> "command", command |-> "start_recording"]),
     serializeJson([type |-> "command", command |-> "haptic_feedback", data |-> "pattern"]),
     serializeJson([type |-> "command", command |-> "reset"]),
     serializeJson([type |-> "command", data |-> "pattern"]),
     serializeJson([type |-> "status", status |-> "ready"]),
     serializeJson([type |-> "status", status |-> "charging"]),
     serializeJson([type |-> "status", data |-> "pattern"]),
     serializeJson([type |-> "heartbeat", timestamp |-> 1]),
     serializeJson([type |-> "ack", ack_id |-> "m1"])}

(***************************************************************************)
(* BLEManager: the characteristics and what is written to them.  Every     *)
(* operator takes the messaging object m (the rest of BLEManager, the      *)
(* static counter of Protocol::generateMessageId and the timers of         *)
(* main.cpp), the connection flags b and the value t of millis(), and      *)
(* returns m after the call.  m.op names the operation entered last,       *)
(* m.argument the status string when that operation is a direct call of    *)
(* sendStatus,                                                             *)
(* m.ret the value the last sendCommand or sendStatus returned, m.written  *)
(* the messages handed to setValue()/notify() since then, in order, and    *)
(* m.handled the handler calls made since then; m.received is the value   *)
(* the peer wrote when the operation is onWrite.  m.transfer tells whether  *)
(* the main thread is inside sendAudioData and who called it, m.length and *)
(* m.offset are its locals, m.chunks the slices of the payload it has      *)
(* handed to the audio characteristic and m.audioResult what it returned.  *)
(* m.pass is the position of the main thread inside a pass of loop() where *)
(* the pass is followed call by call: "button" after button.tick(),        *)
(* "update" after connectionManager.update(), "none" outside.  m.heardAt   *)
(* is the value of millis() when handleIncomingMessage last took a         *)
(* Heartbeat message from the peer, 0 before the first.                    *)
(***************************************************************************)
maxChunkSize == 512

MessagingCtor ==
    [audioCharacteristic |-> FALSE,
     commandCharacteristic |-> FALSE,
     statusCharacteristic |-> FALSE,
     lastHeartbeat |-> 0,
     heardAt |-> 0,
     counter |-> 0,
     lastStatusUpdate |-> 0,
     lastBatteryCheck |-> 0,
     transfer |-> "none",
     length |-> 0,
     offset |-> 0,
     chunks |-> <<>>,
     audioResult |-> "none",
     restart |-> FALSE,
     pass |-> "none",
     op |-> "BLEManager",
     argument |-> "",
     ret |-> FALSE,
     received |-> EmptyText,
     written |-> <<>>,
     handled |-> <<>>]

\* start of the operation op: nothing written or handled yet; the record of
\* a finished audio transfer is dropped
Enter(m, op) ==
    LET m1 == [m EXCEPT !.op = op, !.argument = "", !.ret = FALSE,
                        !.received = EmptyText, !.written = <<>>, !.handled = <<>>]
    IN  IF m.transfer = "none"
        THEN [m1 EXCEPT !.length = 0, !.offset = 0, !.chunks = <<>>,
                        !.audioResult = "none"]
        ELSE m1

\* characteristic->setValue(value); characteristic->notify()
Notify(m, channel, value) ==
    [m EXCEPT !.written = Append(@, [channel |-> channel, value |-> value])]

Handle(m, handler, what, data) ==
    [m EXCEPT !.handled = Append(@, <<handler, what, data>>)]

setupCharacteristics(m) ==
    [m EXCEPT !.audioCharacteristic = TRUE,
              !.commandCharacteristic = TRUE,
              !.statusCharacteristic = TRUE]

\* sendAudioData up to the loop: caller is "call" or "loop"
sendAudioDataEnter(m, b, length, caller) ==
    IF ~b.deviceConnected \/ ~m.audioCharacteristic
    THEN [m EXCEPT !.audioResult = "false"]
    ELSE [m EXCEPT !.transfer = caller, !.length = length, !.offset = 0,
                   !.chunks = <<>>, !.audioResult = "pending"]

\* faulty variant of sendAudioDataChunk: every chunk has the full size
sendAudioDataChunk_fullSize(m) ==
    LET chunkSize == maxChunkSize
    IN  [m EXCEPT !.chunks = Append(@, [offset |-> m.offset, size |-> chunkSize]),
                  !.offset = m.offset + chunkSize]

\* one iteration of the loop of sendAudioData, up to its delay(10): the
\* bytes data[offset .. offset + chunkSize - 1] go to the audio characteristic
sendAudioDataChunk(m) ==
    LET chunkSize == Min(maxChunkSize, m.length - m.offset)
    IN  [m EXCEPT !.chunks = Append(@, [offset |-> m.offset, size |-> chunkSize]),
                  !.offset = m.offset + chunkSize]

\* sendAudioData after the loop
sendAudioDataReturn(m) == [m EXCEPT !.transfer = "none", !.audioResult = "true"]

sendCommand(m, b, command, t) ==
    IF ~b.deviceConnected \/ ~m.commandCharacteristic
    THEN [m EXCEPT !.ret = FALSE]
    ELSE LET message == createCommandMessage(m.counter, command, "", t)
         IN  [Notify([m EXCEPT !.counter = message.counter], "command", message.text)
                 EXCEPT !.ret = TRUE]

\* faulty variant of statusTypeOfString: a string that is not a status is
\* taken for STATUS_ERROR
statusTypeOfString_unknownIsError(status) ==
    CASE status = "ready" -> STATUS_READY
      [] status = "recording" -> STATUS_RECORDING
      [] status = "processing" -> STATUS_PROCESSING
      [] status = "low_battery" -> STATUS_LOW_BATTERY
      [] status = "disconnected" -> STATUS_DISCONNECTED
      [] OTHER -> STATUS_ERROR

\* sendStatus: from the status string to the enum, STATUS_READY by default
statusTypeOfString(status) ==
    CASE status = "recording" -> STATUS_RECORDING
      [] status = "processing" -> STATUS_PROCESSING
      [] status = "low_battery" -> STATUS_LOW_BATTERY
      [] status = "error" -> STATUS_ERROR
      [] status = "disconnected" -> STATUS_DISCONNECTED
      [] OTHER -> STATUS_READY

\* faulty variant of sendStatus: the message is created before the peer and
\* the characteristic are looked at
sendStatus_createsFirst(m, b, status, t) ==
    LET message == createStatusMessage(m.counter, statusTypeOfString(status), "", t)
        m1 == [m EXCEPT !.counter = message.counter]
    IN  IF ~b.deviceConnected \/ ~m.statusCharacteristic
        THEN [m1 EXCEPT !.ret = FALSE]
        ELSE [Notify(m1, "status", message.text) EXCEPT !.ret = TRUE]

sendStatus(m, b, status, t) ==
    IF ~b.deviceConnected \/ ~m.statusCharacteristic
    THEN [m EXCEPT !.ret = FALSE]
    ELSE LET message == createStatusMessage(m.counter, statusTypeOfString(status), "", t)
         IN  [Notify([m EXCEPT !.counter = message.counter], "status", message.text)
                 EXCEPT !.ret = TRUE]

\* faulty variant of sendHeartbeat: nothing is sent
sendHeartbeat_silent(m, b, t) == m

sendHeartbeat(m, b, t) ==
    IF ~b.deviceConnected \/ ~m.statusCharacteristic
    THEN m
    ELSE LET message == createHeartbeatMessage(m.counter, t)
         IN  Notify([m EXCEPT !.counter = message.counter], "status", message.text)

\* BLEManager::update, the periodic heartbeat
bleUpdateHeartbeat(m, b, t) ==
    IF b.deviceConnected /\ t - m.lastHeartbeat > 30000
    THEN [sendHeartbeat(m, b, t) EXCEPT !.lastHeartbeat = t]
    ELSE m

\* handleCommand: CMD_RESET calls ESP.restart()
handleCommand(m, command, data) ==
    LET m1 == Handle(m, "handleCommand", command, data)
    IN  IF command = CMD_RESET THEN [m1 EXCEPT !.restart = TRUE] ELSE m1

handleStatusUpdate(m, status, data) == Handle(m, "handleStatusUpdate", status, data)

\* faulty variant of handleIncomingMessage: the handlers are called whatever
\* parseCommand and parseStatus return
handleIncomingMessage_unchecked(m, b, msgType, payload, t) ==
    CASE msgType = MSG_COMMAND ->
           LET p == parseCommand(payload, CMD_START_RECORDING, "")
           IN  handleCommand(m, p.command, p.data)
      [] msgType = MSG_STATUS ->
           LET p == parseStatus(payload, STATUS_READY, "")
           IN  handleStatusUpdate(m, p.status, p.data)
      [] msgType = MSG_HEARTBEAT -> sendHeartbeat([m EXCEPT !.heardAt = t], b, t)
      [] OTHER -> m

\* handleIncomingMessage: the locals command and status are uninitialized
\* before the parse call and read only after it succeeded
handleIncomingMessage(m, b, msgType, payload, t) ==
    CASE msgType = MSG_COMMAND ->
           LET p == parseCommand(payload, "uninitialized", "")
           IN  IF p.ok THEN handleCommand(m, p.command, p.data) ELSE m
      [] msgType = MSG_STATUS ->
           LET p == parseStatus(payload, "uninitialized", "")
           IN  IF p.ok THEN handleStatusUpdate(m, p.status, p.data) ELSE m
      [] msgType = MSG_HEARTBEAT -> sendHeartbeat([m EXCEPT !.heardAt = t], b, t)
      [] OTHER -> m

\* faulty variant of onWrite: a write that does not parse is dropped
onWrite_dropsSilently(m, b, value, t) ==
    LET m1 == [m EXCEPT !.received = value]
    IN  IF value # EmptyText
        THEN LET p == parseMessage(value, "uninitialized", EmptyText)
             IN  IF p.ok
                 THEN handleIncomingMessage(m1, b, p.type, p.payload, t)
                 ELSE m1
        ELSE m1

\* onWrite(characteristic): value is what the peer wrote
onWrite(m, b, value, t) ==
    LET m1 == [m EXCEPT !.received = value]
    IN  IF value # EmptyText
        THEN LET p == parseMessage(value, "uninitialized", EmptyText)
             IN  IF p.ok
                 THEN handleIncomingMessage(m1, b, p.type, p.payload, t)
                 ELSE LET errorMsg == createErrorMessage(m1.counter, ERROR_INVALID_COMMAND,
                                                         "Invalid message format", t)
                      IN  Notify([m1 EXCEPT !.counter = errorMsg.counter],
                                 "status", errorMsg.text)
        ELSE m1

(***************************************************************************)
(* main.cpp                                                                *)
(***************************************************************************)
ButtonEvents == {"none", "longPress"}

\* onButtonLongPress, as a pair <<ConnectionManager, BLEManager>>
onButtonLongPress(c, b, t) ==
    IF isConnected(c)
    THEN <<disconnect(c, t), b>>
    ELSE <<setState(c, CONN_ADVERTISING, t), bleStartAdvertising(b)>>

(***************************************************************************)
(* main.cpp: what a pass of loop() sends.                                  *)
(***************************************************************************)
statusUpdateInterval == 5000

GESTURE_NONE == "GESTURE_NONE"
GESTURE_TAP == "GESTURE_TAP"

\* "gesture_" + String(gesture)
gestureCommand(gesture) == IF gesture = GESTURE_TAP THEN "gesture_1" ELSE "gesture_0"

\* what the button and the sensors report during one pass of loop(): at most
\* one of them reports something in a pass.  wakeWord is "started" when
\* voiceDetector.startRecording() succeeds and "failed" when it does not;
\* recordedBytes = 0 when no recording completed in the pass.
QuietInput ==
    [button |-> "none", wakeWord |-> "none", gesture |-> GESTURE_NONE,
     recordedBytes |-> 0, lowBattery |-> FALSE, voice |-> "VOICE_IDLE"]

LoopInputs ==
    {QuietInput}
    \cup {[QuietInput EXCEPT !.button = btn] : btn \in {"click", "longPress"}}
    \cup {[QuietInput EXCEPT !.wakeWord = "started"]}
    \cup {[QuietInput EXCEPT !.gesture = GESTURE_TAP]}
    \cup {[QuietInput EXCEPT !.recordedBytes = RecordedBytes]}
    \cup {[QuietInput EXCEPT !.lowBattery = TRUE]}
    \cup {[QuietInput EXCEPT !.voice = "VOICE_RECORDING"]}

\* the inputs of a pass that decide what the pass sends; a long press sends
\* nothing and is exercised by Loop
FirmwareInputs == LoopInputs \ {[QuietInput EXCEPT !.button = "longPress"]}

onButtonClick(m, c, b, t) ==
    IF isConnected(c) THEN sendCommand(m, b, "button_click", t) ELSE m

handleWakeWordDetected(m, c, b, t, wakeWord) ==
    IF isConnected(c) /\ wakeWord = "started"
    THEN sendCommand(m, b, "wake_word_detected", t)
    ELSE m

handleGestureDetected(m, c, b, t, gesture) ==
    IF isConnected(c) THEN sendCommand(m, b, gestureCommand(gesture), t) ELSE m

\* handleVoiceRecordingComplete up to the loop of sendAudioData
handleVoiceRecordingComplete(m, c, b, audioSize) ==
    IF isConnected(c) /\ audioSize > 0
    THEN sendAudioDataEnter(m, b, audioSize, "loop")
    ELSE m

checkBatteryLevel(m, c, b, t, lowBattery) ==
    IF t - m.lastBatteryCheck > 30000
    THEN [(IF lowBattery /\ isConnected(c)
           THEN sendStatus(m, b, "low_battery", t)
           ELSE m) EXCEPT !.lastBatteryCheck = t]
    ELSE m

sendPeriodicStatus(m, c, b, t, voice) ==
    IF isConnected(c) /\ t - m.lastStatusUpdate > statusUpdateInterval
    THEN LET status == CASE voice = "VOICE_RECORDING" -> "recording"
                         [] voice = "VOICE_PROCESSING" -> "processing"
                         [] OTHER -> "ready"
         IN  [sendStatus(m, b, status, t) EXCEPT !.lastStatusUpdate = t]
    ELSE m

\* loop() from button.tick() to handleVoiceRecordingComplete, as the triple
\* <<ConnectionManager, BLEManager flags, messaging>>
loopHead(c, b, m, t, in) ==
    LET pressed == IF in.button = "longPress"
                   THEN onButtonLongPress(c, b, t)
                   ELSE <<c, b>>
        m1 == IF in.button = "click" THEN onButtonClick(m, c, b, t) ELSE m
        c2 == update(pressed[1], t)
        b3 == bleUpdate(pressed[2])
        m3 == bleUpdateHeartbeat(m1, pressed[2], t)
        m4 == IF in.wakeWord # "none"
              THEN handleWakeWordDetected(m3, c2, b3, t, in.wakeWord)
              ELSE m3
        m5 == IF in.gesture # GESTURE_NONE
              THEN handleGestureDetected(m4, c2, b3, t, in.gesture)
              ELSE m4
        m6 == IF in.recordedBytes > 0
              THEN handleVoiceRecordingComplete(m5, c2, b3, in.recordedBytes)
              ELSE m5
    IN  <<c2, b3, m6>>

\* loop() from checkBatteryLevel to its end
loopTail(c, b, m, t, in) ==
    sendPeriodicStatus(checkBatteryLevel(m, c, b, t, in.lowBattery), c, b, t, in.voice)

\* loop(): button.tick() with the handlers it calls, as the triple
\* <<ConnectionManager, BLEManager flags, messaging>>
loopButtonTick(c, b, m, t, in) ==
    LET pressed == IF in.button = "longPress"
                   THEN onButtonLongPress(c, b, t)
                   ELSE <<c, b>>
        m1 == IF in.button = "click" THEN onButtonClick(m, c, b, t) ELSE m
    IN  <<pressed[1], pressed[2], m1>>

\* loop() from bleManager.update() to its end, in a pass in which no
\* recording completes, as the pair <<BLEManager flags, messaging>>
loopAfterUpdate(c, b, m, t, in) ==
    LET b3 == bleUpdate(b)
        m3 == bleUpdateHeartbeat(m, b, t)
        m4 == IF in.wakeWord # "none"
              THEN handleWakeWordDetected(m3, c, b3, t, in.wakeWord)
              ELSE m3
        m5 == IF in.gesture # GESTURE_NONE
              THEN handleGestureDetected(m4, c, b3, t, in.gesture)
              ELSE m4
    IN  <<b3, loopTail(c, b3, m5, t, in)>>

\* the codec is not in use
CodecIdle ==
    [command |-> "start_recording", data |-> "", status |-> STATUS_READY,
     stale |-> FALSE, json |-> EmptyText, origin |-> "none", step |-> "none",
     ok |-> FALSE, type |-> "uninitialized", payload |-> EmptyText,
     commandOut |-> "uninitialized", statusOut |-> "uninitialized", dataOut |-> ""]

Init ==
    /\ cm = ConnectionManagerCtor
    /\ ble = BLEManagerCtor
    /\ now = 0
    /\ systemReady = FALSE
    /\ msg = MessagingCtor
    /\ codec = CodecIdle

\* setup(): every component initialises
Setup ==
    /\ ~systemReady
    /\ LET c1 == begin(Call(cm, "setup"))
           c2 == [c1 EXCEPT !.onConnected = TRUE, !.onDisconnected = TRUE,
                            !.onReconnecting = TRUE]
       IN  cm' = setState(c2, CONN_ADVERTISING, now)
    /\ ble' = bleBegin(ble)
    /\ msg' = setupCharacteristics(msg)
    /\ systemReady' = TRUE
    /\ UNCHANGED <<now, codec>>

\* millis() advances
Advance ==
    /\ now + ClockStep <= MaxNow
    /\ now' = now + ClockStep
    /\ UNCHANGED <<cm, ble, systemReady, msg, codec>>

\* one pass of loop(): button.tick(), connectionManager.update(),
\* bleManager.update()
Loop(btn) ==
    /\ systemReady
    /\ LET p == IF btn = "longPress"
                THEN onButtonLongPress(Call(cm, "loop"), ble, now)
                ELSE <<Call(cm, "loop"), ble>>
       IN  /\ cm' = update(p[1], now)
           /\ ble' = bleUpdate(p[2])
    /\ UNCHANGED <<now, systemReady, msg, codec>>

\* the public operations of ConnectionManager, called directly
Update ==
    /\ systemReady
    /\ cm' = update(Call(cm, "update"), now)
    /\ UNCHANGED <<ble, now, systemReady, msg, codec>>

Begin ==
    /\ systemReady
    /\ cm' = begin(Call(cm, "begin"))
    /\ UNCHANGED <<ble, now, systemReady, msg, codec>>

SetState(state) ==
    /\ systemReady
    /\ cm' = setState(Call(cm, "setState"), state, now)
    /\ UNCHANGED <<ble, now, systemReady, msg, codec>>

Disconnect ==
    /\ systemReady
    /\ cm' = disconnect(Call(cm, "disconnect"), now)
    /\ UNCHANGED <<ble, now, systemReady, msg, codec>>

Reconnect ==
    /\ systemReady
    /\ cm' = reconnect(Call(cm, "reconnect"), now)
    /\ UNCHANGED <<ble, now, systemReady, msg, codec>>

UpdateHeartbeat ==
    /\ systemReady
    /\ cm' = updateHeartbeat(Call(cm, "updateHeartbeat"), now)
    /\ UNCHANGED <<ble, now, systemReady, msg, codec>>

SetReconnectInterval(intervalMs) ==
    /\ systemReady
    /\ cm' = setReconnectInterval(Call(cm, "setReconnectInterval"), intervalMs)
    /\ UNCHANGED <<ble, now, systemReady, msg, codec>>

SetMaxReconnectAttempts(attempts) ==
    /\ systemReady
    /\ cm' = setMaxReconnectAttempts(Call(cm, "setMaxReconnectAttempts"), attempts)
    /\ UNCHANGED <<ble, now, systemReady, msg, codec>>

\* the BLE stack reports a peer: it attaches only while the stack advertises
OnConnect ==
    /\ systemReady
    /\ ble.advertising /\ ~ble.deviceConnected
    /\ ble' = onConnect(ble)
    /\ UNCHANGED <<cm, now, systemReady, msg, codec>>

OnDisconnect ==
    /\ systemReady
    /\ ble.deviceConnected
    /\ ble' = onDisconnect(ble)
    /\ UNCHANGED <<cm, now, systemReady, msg, codec>>

Next ==
    \/ Setup
    \/ Advance
    \/ \E btn \in ButtonEvents : Loop(btn)
    \/ Update
    \/ Begin
    \/ \E state \in ConnectionState : SetState(state)
    \/ Disconnect
    \/ Reconnect
    \/ UpdateHeartbeat
    \/ \E intervalMs \in IntervalChoices : SetReconnectInterval(intervalMs)
    \/ \E attempts \in AttemptChoices : SetMaxReconnectAttempts(attempts)
    \/ OnConnect
    \/ OnDisconnect

Spec == Init /\ [][Next]_vars

\* one pass of loop(), complete: what Loop does to the state machine and the
\* connection flags, and every send of the pass.  When the pass starts an
\* audio transfer it stops in sendAudioData and LoopAfterAudio finishes it.
MainLoop(in) ==
    /\ systemReady
    /\ msg.transfer = "none"
    /\ LET s == loopHead(Call(cm, "loop"), ble, Enter(msg, "loop"), now, in)
       IN  /\ cm' = s[1]
           /\ ble' = s[2]
           /\ msg' = IF s[3].transfer = "loop"
                     THEN s[3]
                     ELSE loopTail(s[1], s[2], s[3], now, in)
    /\ msg'.counter <= MaxCounter
    /\ UNCHANGED <<now, systemReady, codec>>

\* the loop of sendAudioData runs one iteration
AudioChunk ==
    /\ msg.transfer # "none"
    /\ msg.offset < msg.length
    /\ msg' = sendAudioDataChunk(msg)
    /\ UNCHANGED <<cm, ble, now, systemReady, codec>>

\* sendAudioData, called from the pass of loop(), returns and the pass ends
LoopAfterAudio(in) ==
    /\ msg.transfer = "loop"
    /\ msg.offset >= msg.length
    /\ msg' = loopTail(cm, ble, sendAudioDataReturn(msg), now, in)
    /\ msg'.counter <= MaxCounter
    /\ UNCHANGED <<cm, ble, now, systemReady, codec>>

\* the public send operations of BLEManager, called directly
SendCommand(command) ==
    /\ msg.transfer = "none"
    /\ msg' = sendCommand(Enter(msg, "sendCommand"), ble, command, now)
    /\ msg'.counter <= MaxCounter
    /\ UNCHANGED <<cm, ble, now, systemReady, codec>>

SendStatus(status) ==
    /\ msg.transfer = "none"
    /\ msg' = sendStatus([Enter(msg, "sendStatus") EXCEPT !.argument = status],
                         ble, status, now)
    /\ msg'.counter <= MaxCounter
    /\ UNCHANGED <<cm, ble, now, systemReady, codec>>

SendAudioData(length) ==
    /\ msg.transfer = "none"
    /\ msg' = sendAudioDataEnter(Enter(msg, "sendAudioData"), ble, length, "call")
    /\ UNCHANGED <<cm, ble, now, systemReady, codec>>

SendAudioDataReturn ==
    /\ msg.transfer = "call"
    /\ msg.offset >= msg.length
    /\ msg' = sendAudioDataReturn(msg)
    /\ UNCHANGED <<cm, ble, now, systemReady, codec>>

\* faulty variant of OnWrite: a write that does not parse also makes the
\* state machine disconnect
OnWrite_disconnectsOnError(value) ==
    /\ systemReady
    /\ ble.deviceConnected
    /\ LET m == onWrite(Enter(msg, "onWrite"), ble, value, now)
       IN  IF m.restart
           THEN /\ cm' = ConnectionManagerCtor
                /\ ble' = BLEManagerCtor
                /\ now' = 0
                /\ systemReady' = FALSE
                /\ msg' = [MessagingCtor EXCEPT !.op = "onWrite", !.received = value,
                                                !.handled = m.handled]
           ELSE /\ msg' = m
                /\ msg'.counter <= MaxCounter
                /\ cm' = IF m.written # <<>> /\ m.handled = <<>> /\ value # EmptyText
                             /\ ~parseMessage(value, "uninitialized", EmptyText).ok
                         THEN disconnect(cm, now)
                         ELSE cm
                /\ UNCHANGED <<ble, now, systemReady>>
    /\ UNCHANGED codec

\* the peer writes value to a characteristic.  When the write is a reset
\* command, handleCommand calls ESP.restart(): the device boots again, every
\* object is constructed anew and millis() starts at 0.
OnWrite(value) ==
    /\ systemReady
    /\ ble.deviceConnected
    /\ LET m == onWrite(Enter(msg, "onWrite"), ble, value, now)
       IN  IF m.restart
           THEN /\ cm' = ConnectionManagerCtor
                /\ ble' = BLEManagerCtor
                /\ now' = 0
                /\ systemReady' = FALSE
                /\ msg' = [MessagingCtor EXCEPT !.op = "onWrite", !.received = value,
                                                !.handled = m.handled]
           ELSE /\ msg' = m
                /\ msg'.counter <= MaxCounter
                /\ UNCHANGED <<cm, ble, now, systemReady>>
    /\ UNCHANGED codec

\* the main thread is not inside sendAudioData
Idle == msg.transfer = "none"

\* the messaging core exercised directly: the peer attaches, writes and
\* detaches, the send operations are called, and setState is called in place
\* of the firmware
LinkNext ==
    \/ Setup
    \/ \E command \in CommandChoices : SendCommand(command)
    \/ \E status \in StatusChoices : SendStatus(status)
    \/ \E length \in AudioLengths : SendAudioData(length)
    \/ AudioChunk
    \/ SendAudioDataReturn
    \/ \E value \in InboundWrites : OnWrite(value)
    \/ OnConnect
    \/ OnDisconnect
    \/ (Idle /\ \E state \in ConnectionState : SetState(state))

LinkSpec == Init /\ [][LinkNext]_vars

\* the firmware as it runs: setup(), then passes of loop() while the clock
\* advances and the peer attaches and detaches; setState(CONN_CONNECTED) is
\* called as the code that reports the peer would
FirmwareNext ==
    \/ Setup
    \/ Advance
    \/ \E in \in FirmwareInputs : MainLoop(in)
    \/ AudioChunk
    \/ \E in \in FirmwareInputs : LoopAfterAudio(in)
    \/ OnConnect
    \/ OnDisconnect
    \/ (Idle /\ SetState(CONN_CONNECTED))

FirmwareSpec == Init /\ [][FirmwareNext]_vars

\* millis() advances while no peer attaches
Elapse ==
    /\ now + BackoffStep <= MaxBackoffNow
    /\ now' = now + BackoffStep
    /\ UNCHANGED <<cm, ble, systemReady, msg, codec>>

\* the state machine left to itself under the default tuning: setup(), then
\* update() ticks while the clock advances and no peer attaches; begin() is
\* the reset
BackoffNext ==
    \/ Setup
    \/ Elapse
    \/ Update
    \/ Begin

BackoffSpec == Init /\ [][BackoffNext]_vars

\* a pass of loop() followed call by call.  BLEManager::onWrite is a callback
\* of the BLE stack (setCallbacks(this)): it is not called from loop() and
\* nothing in the firmware defers it, so it runs at any point of a pass.
LoopButtonTick(in) ==
    /\ systemReady
    /\ msg.transfer = "none" /\ msg.pass = "none"
    /\ LET s == loopButtonTick(Call(cm, "loop"), ble, Enter(msg, "loop"), now, in)
       IN  /\ cm' = s[1]
           /\ ble' = s[2]
           /\ msg' = [s[3] EXCEPT !.pass = "button"]
    /\ msg'.counter <= MaxCounter
    /\ UNCHANGED <<now, systemReady, codec>>

LoopUpdate ==
    /\ msg.pass = "button"
    /\ cm' = update(cm, now)
    /\ msg' = [msg EXCEPT !.pass = "update"]
    /\ UNCHANGED <<ble, now, systemReady, codec>>

LoopAfterUpdate(in) ==
    /\ msg.pass = "update"
    /\ LET s == loopAfterUpdate(cm, ble, msg, now, in)
       IN  /\ ble' = s[1]
           /\ msg' = [s[2] EXCEPT !.pass = "none"]
    /\ msg'.counter <= MaxCounter
    /\ UNCHANGED <<cm, now, systemReady, codec>>

\* what the button and the sensors report in the passes followed call by call
DispatchInputs == {QuietInput, [QuietInput EXCEPT !.button = "click"]}

\* what the peer writes during those passes
DispatchWrites ==
    {serializeJson([type |-> "command", command |-> "start_recording"]),
     serializeJson([type |-> "bogus"])}

DispatchNext ==
    \/ Setup
    \/ Advance
    \/ \E in \in DispatchInputs : LoopButtonTick(in)
    \/ LoopUpdate
    \/ \E in \in DispatchInputs : LoopAfterUpdate(in)
    \/ \E value \in DispatchWrites : OnWrite(value)
    \/ OnConnect
    \/ OnDisconnect
    \/ (msg.pass = "none" /\ SetState(CONN_CONNECTED))

DispatchSpec == Init /\ [][DispatchNext]_vars

SetHeartbeatInterval(intervalMs) ==
    /\ systemReady
    /\ cm' = setHeartbeatInterval(Call(cm, "setHeartbeatInterval"), intervalMs)
    /\ UNCHANGED <<ble, now, systemReady, msg, codec>>

\* the heartbeats of the firmware: passes of loop() with nothing to report
\* while the clock advances, the peer attaches, sends heartbeats and
\* detaches, and the heartbeat interval is configured
HeartbeatNext ==
    \/ Setup
    \/ Advance
    \/ \E in \in {QuietInput} : MainLoop(in)
    \/ \E value \in {serializeJson([type |-> "heartbeat", timestamp |-> 1])} : OnWrite(value)
    \/ OnConnect
    \/ OnDisconnect
    \/ (Idle /\ SetState(CONN_CONNECTED))
    \/ \E intervalMs \in HeartbeatChoices : SetHeartbeatInterval(intervalMs)

HeartbeatSpec == Init /\ [][HeartbeatNext]_vars

\* the firmware after 2^32 - WrapLead ms of uptime: setup() ran long ago, the
\* state machine is in any of its states with the counters of a fresh
\* sequence, and its timestamps were taken at most WrapAge ago
WrapInit ==
    /\ now = Sub32(0, WrapLead)
    /\ systemReady = TRUE
    /\ ble = bleBegin(BLEManagerCtor)
    /\ msg = setupCharacteristics(MessagingCtor)
    /\ codec = CodecIdle
    /\ \E state \in ConnectionState, age \in {0, WrapAge} :
           cm = [ConnectionManagerCtor EXCEPT
                     !.currentState = state,
                     !.lastConnectionAttempt = Sub32(now, age),
                     !.lastHeartbeat = Sub32(now, age),
                     !.onConnected = TRUE, !.onDisconnected = TRUE,
                     !.onReconnecting = TRUE,
                     !.op = "setState"]

\* millis() advances and wraps to 0 after 2^32 - 1
WrapAdvance ==
    /\ now + ClockStep <= MaxNow
    /\ now' = Add32(now, ClockStep)
    /\ UNCHANGED <<cm, ble, systemReady, msg, codec>>

\* the state machine while the clock wraps: update() ticks, and the calls
\* that take a timestamp or start a sequence
WrapNext ==
    \/ WrapAdvance
    \/ Update
    \/ UpdateHeartbeat
    \/ Reconnect
    \/ SetState(CONN_CONNECTED)

WrapSpec == WrapInit /\ [][WrapNext]_vars

\* sendStatus called with every status string, and with strings that are
\* none, while the clock advances and the peer attaches and detaches
StatusNext ==
    \/ Setup
    \/ Advance
    \/ \E status \in StatusArguments : SendStatus(status)
    \/ OnConnect
    \/ OnDisconnect

StatusSpec == Init /\ [][StatusNext]_vars

\* the transport as it runs: setup(), then passes of loop() for ever while
\* the clock advances and the peer attaches and detaches at any point
\* between two passes.  loop() is called again as soon as it returns, so a
\* pass that would change something is eventually run; a press of the button
\* is never certain.
AdvertisingNext ==
    \/ Setup
    \/ Advance
    \/ \E btn \in ButtonEvents : Loop(btn)
    \/ OnConnect
    \/ OnDisconnect

AdvertisingSpec ==
    Init /\ [][AdvertisingNext]_vars /\ WF_vars(Setup) /\ WF_vars(Loop("none"))

(***************************************************************************)
(* The codec on its own: the create and parse functions of Protocol are    *)
(* applied to inputs drawn at the start, as testProtocol does.             *)
(* codec.command, codec.data and codec.status are the arguments of the     *)
(* create functions, codec.json the text last created or received,         *)
(* codec.origin what made it, codec.step the function applied last and     *)
(* codec.ok its return value; type, payload, commandOut, statusOut and     *)
(* dataOut are the caller's variables handed to the parse functions as     *)
(* output parameters.  They are declared anew for every text: without a    *)
(* value, or (codec.stale) holding the results of an earlier parse.        *)
(***************************************************************************)
CodecInputs ==
    {[command |-> command, data |-> data, status |-> STATUS_READY] :
         command \in CodecCommands, data \in CodecData}
    \cup {[command |-> "start_recording", data |-> data, status |-> status] :
              data \in CodecData, status \in StatusType}

\* the caller's variables before the parse calls
Locals(c) ==
    IF c.stale
    THEN [c EXCEPT !.type = MSG_ACK, !.payload = serializeJson([ack_id |-> "m0"]),
                   !.commandOut = CMD_WAKE, !.statusOut = STATUS_ERROR,
                   !.dataOut = "stale"]
    ELSE [c EXCEPT !.type = "uninitialized", !.payload = EmptyText,
                   !.commandOut = "uninitialized", !.statusOut = "uninitialized",
                   !.dataOut = ""]

CodecInit ==
    /\ cm = ConnectionManagerCtor
    /\ ble = BLEManagerCtor
    /\ now = 0
    /\ systemReady = FALSE
    /\ msg = MessagingCtor
    /\ \E input \in CodecInputs, stale \in BOOLEAN :
           codec = Locals([CodecIdle EXCEPT !.command = input.command,
                                            !.data = input.data,
                                            !.status = input.status,
                                            !.stale = stale])

Created(origin, message) ==
    /\ message.counter <= MaxCounter
    /\ msg' = [msg EXCEPT !.counter = message.counter]
    /\ codec' = [Locals(codec) EXCEPT !.json = message.text, !.origin = origin,
                                      !.step = "create", !.ok = TRUE]
    /\ UNCHANGED <<cm, ble, now, systemReady>>

CreateCommand ==
    Created("createCommandMessage",
            createCommandMessage(msg.counter, codec.command, codec.data, now))

CreateStatus ==
    Created("createStatusMessage",
            createStatusMessage(msg.counter, codec.status, codec.data, now))

CreateError ==
    Created("createErrorMessage",
            createErrorMessage(msg.counter, ERROR_NONE, codec.data, now))

CreateHeartbeat ==
    Created("createHeartbeatMessage", createHeartbeatMessage(msg.counter, now))

\* text that comes from the peer
Receive(value) ==
    /\ codec' = [Locals(codec) EXCEPT !.json = value, !.origin = "peer",
                                      !.step = "receive", !.ok = TRUE]
    /\ UNCHANGED <<cm, ble, now, systemReady, msg>>

ParseMessage ==
    /\ codec.step \in {"create", "receive"}
    /\ LET r == parseMessage(codec.json, codec.type, codec.payload)
       IN  codec' = [codec EXCEPT !.step = "parseMessage", !.ok = r.ok,
                                  !.type = r.type, !.payload = r.payload]
    /\ UNCHANGED <<cm, ble, now, systemReady, msg>>

ParseCommand ==
    /\ codec.step = "parseMessage" /\ codec.ok
    /\ LET r == parseCommand(codec.payload, codec.commandOut, codec.dataOut)
       IN  codec' = [codec EXCEPT !.step = "parseCommand", !.ok = r.ok,
                                  !.commandOut = r.command, !.dataOut = r.data]
    /\ UNCHANGED <<cm, ble, now, systemReady, msg>>

ParseStatus ==
    /\ codec.step = "parseMessage" /\ codec.ok
    /\ LET r == parseStatus(codec.payload, codec.statusOut, codec.dataOut)
       IN  codec' = [codec EXCEPT !.step = "parseStatus", !.ok = r.ok,
                                  !.statusOut = r.status, !.dataOut = r.data]
    /\ UNCHANGED <<cm, ble, now, systemReady, msg>>

CodecNext ==
    \/ CreateCommand
    \/ CreateStatus
    \/ CreateError
    \/ CreateHeartbeat
    \/ \E value \in InboundWrites : Receive(value)
    \/ ParseMessage
    \/ ParseCommand
    \/ ParseStatus

CodecSpec == CodecInit /\ [][CodecNext]_vars

(***************************************************************************)
(* The audio codec on its own.  codec.data is the payload, codec.encoded   *)
(* the String last encoded or received and codec.origin which of the two,  *)
(* codec.buffer and codec.length the caller's variables handed to          *)
(* decodeAudioData, codec.buffer0 and codec.length0 what they held when    *)
(* they were declared, codec.step the function applied last and codec.ok   *)
(* what decodeAudioData returned.                                          *)
(***************************************************************************)
AudioPayloads ==
    {<<>>}
    \cup {<<a>> : a \in AudioBytes}
    \cup {<<a, b>> : a, b \in AudioBytes}
    \cup {[i \in 1..n |-> (seed + 37 * (i - 1)) % 256] :
              n \in LongLengths, seed \in AudioSeeds}

\* Strings that encodeAudioData did not make
AudioTexts ==
    {<<"a">>, <<"0", "a", "f">>, <<"0", "a", "\n", "f">>, <<"1", " ", "2", "3">>,
     <<"0", "a", " ", "f", "f">>, <<"f", "f", "\n">>, <<"g", "1", "1", "g">>, <<" ">>}

AudioInit ==
    /\ cm = ConnectionManagerCtor
    /\ ble = BLEManagerCtor
    /\ now = 0
    /\ systemReady = FALSE
    /\ msg = MessagingCtor
    /\ \E data \in AudioPayloads, held \in {0, 85}, length \in {0, 3} :
           codec = [data |-> data, encoded |-> <<>>, origin |-> "none",
                    buffer0 |-> [i \in 1..AudioCapacity |-> held],
                    length0 |-> length,
                    buffer |-> [i \in 1..AudioCapacity |-> held],
                    length |-> length, step |-> "none", ok |-> FALSE]

EncodeAudioData ==
    /\ codec.step = "none"
    /\ codec' = [codec EXCEPT !.encoded = encodeAudioData(codec.data),
                              !.origin = "encodeAudioData", !.step = "encode"]
    /\ UNCHANGED <<cm, ble, now, systemReady, msg>>

\* a String that comes from the peer
ReceiveAudio(text) ==
    /\ codec.step = "none"
    /\ codec.data = <<>>
    /\ codec' = [codec EXCEPT !.encoded = text, !.origin = "peer", !.step = "receive"]
    /\ UNCHANGED <<cm, ble, now, systemReady, msg>>

DecodeAudioData ==
    /\ codec.step \in {"encode", "receive"}
    /\ LET r == decodeAudioData(codec.encoded, codec.buffer, codec.length)
       IN  codec' = [codec EXCEPT !.step = "decode", !.ok = r.ok,
                                  !.buffer = r.buffer, !.length = r.length]
    /\ UNCHANGED <<cm, ble, now, systemReady, msg>>

AudioNext ==
    \/ EncodeAudioData
    \/ \E text \in AudioTexts : ReceiveAudio(text)
    \/ DecodeAudioData

AudioSpec == AudioInit /\ [][AudioNext]_vars

(***************************************************************************)
(* Properties                                                              *)
(***************************************************************************)
\* the fields of the state machine, without the record of the last call
StateMachine(c) == [c EXCEPT !.op = "", !.fired = <<>>]

\* an update() tick: called directly, or by a pass of loop() with no button
\* event
Tick ==
    \/ cm'.op = "update" /\ Update
    \/ cm'.op = "loop" /\ Loop("none")

Range(seq) == {seq[i] : i \in DOMAIN seq}

TypeOK ==
    /\ cm.currentState \in ConnectionState
    /\ cm.lastConnectionAttempt \in 0..now
    /\ cm.lastHeartbeat \in 0..now
    /\ cm.reconnectInterval \in Nat
    /\ cm.reconnectAttempts \in Nat
    /\ ble.deviceConnected \in BOOLEAN
    /\ ble.oldDeviceConnected \in BOOLEAN
    /\ now \in 0..MaxNow

\* C1: a tick moves the machine into Error exactly when it is Reconnecting,
\* the backoff interval has elapsed and reconnectAttempts has reached
\* maxReconnectAttempts (that many attempts were made without a peer); and a
\* tick in Error, at any clock value, leaves Error and every other field of the
\* state machine as they are.
C1_ErrorAfterMaxAttemptsIsStable ==
    [][Tick =>
        /\ (cm.currentState = CONN_ERROR =>
                StateMachine(cm') = StateMachine(cm) /\ cm'.fired = <<>>)
        /\ (cm.currentState # CONN_ERROR /\ cm'.currentState = CONN_ERROR =>
                /\ cm.currentState = CONN_RECONNECTING
                /\ cm.reconnectAttempts >= cm.maxReconnectAttempts)
        /\ (/\ cm.currentState = CONN_RECONNECTING
            /\ cm.reconnectAttempts >= cm.maxReconnectAttempts
            /\ now - cm.lastConnectionAttempt > cm.reconnectInterval
            => cm'.currentState = CONN_ERROR)]_vars

\* C1 witness: after maxReconnectAttempts attempts the machine is in Error and
\* update() has run again well after the last attempt.
C1_Witness ==
    /\ cm.op = "update"
    /\ cm.currentState = CONN_ERROR
    /\ cm.reconnectAttempts = cm.maxReconnectAttempts
    /\ cm.reconnectAttempts > 1
    /\ now - cm.lastConnectionAttempt >= 2 * ClockStep

\* C2: the state is one of the six values and, once Error, only begin() moves
\* it to another value.
C2_ErrorLeftOnlyByBegin ==
    [][/\ cm'.currentState \in ConnectionState
       /\ (cm.currentState = CONN_ERROR /\ cm'.currentState # CONN_ERROR => Begin)]_vars

\* C3: a peer attaching while the machine is Advertising or Connecting makes
\* it Connected, with the interval reset, reconnectAttempts = 0, the heartbeat
\* timestamp refreshed and onConnected invoked once: at the latest by the end
\* of the pass of loop() that runs with the peer attached.
C3_PeerAttachGivesConnected ==
    [][(/\ Loop("none")
        /\ ble.deviceConnected
        /\ cm.currentState \in {CONN_ADVERTISING, CONN_CONNECTING})
       => /\ cm'.currentState = CONN_CONNECTED
          /\ cm'.reconnectInterval = 1000
          /\ cm'.reconnectAttempts = 0
          /\ cm'.lastHeartbeat = now
          /\ cm'.fired = <<"onConnected">>]_vars

\* C4: the peer detaching while the machine is Connected makes it Disconnected
\* and invokes onDisconnected: at the latest by the end of the pass of loop()
\* in which BLEManager::update sees the peer gone.
C4_PeerDetachGivesDisconnected ==
    [][(/\ Loop("none")
        /\ ~ble.deviceConnected /\ ble.oldDeviceConnected
        /\ cm.currentState = CONN_CONNECTED)
       => /\ cm'.currentState = CONN_DISCONNECTED
          /\ cm'.fired = <<"onDisconnected">>]_vars

\* C5: reconnectInterval <= maxReconnectInterval in every reachable state.
C5_IntervalAtMostMax == cm.reconnectInterval <= cm.maxReconnectInterval

\* C6: outside Error, 0 <= reconnectAttempts <= maxReconnectAttempts.
C6_AttemptsAtMostMax ==
    cm.currentState # CONN_ERROR =>
        (0 <= cm.reconnectAttempts /\ cm.reconnectAttempts <= cm.maxReconnectAttempts)

\* C7: right after a transition into Connected the interval is the configured
\* initial interval (the value last given to setReconnectInterval, here by the
\* call just before) and reconnectAttempts = 0.
C7_ConnectedResetsToConfiguredInterval ==
    [][(/\ cm.op = "setReconnectInterval"
        /\ cm.currentState # CONN_CONNECTED
        /\ SetState(CONN_CONNECTED))
       => /\ cm'.reconnectInterval = cm.reconnectInterval
          /\ cm'.reconnectAttempts = 0]_vars

\* C8: over ticks the interval never decreases, and a tick increases it only
\* when it moves the machine from Reconnecting to Advertising, to
\* min(interval * 2, maxReconnectInterval).
C8_IntervalGrowsOnlyOnAttempt ==
    [][Tick =>
        /\ cm'.reconnectInterval >= cm.reconnectInterval
        /\ (cm'.reconnectInterval > cm.reconnectInterval =>
                /\ cm.currentState = CONN_RECONNECTING
                /\ cm'.currentState = CONN_ADVERTISING
                /\ cm'.reconnectInterval =
                       Min(cm.reconnectInterval * 2, cm.maxReconnectInterval))]_vars

\* C9: a tick in Connected moves the machine to Disconnected exactly when more
\* than heartbeatTimeout has elapsed since lastHeartbeat, and then
\* onDisconnected is invoked exactly once; a tick in any other state does not
\* invoke it.
C9_HeartbeatTimeoutDisconnectsOnce ==
    [][Tick =>
        /\ (cm.currentState = CONN_CONNECTED /\ now - cm.lastHeartbeat > cm.heartbeatTimeout
                => cm'.currentState = CONN_DISCONNECTED /\ cm'.fired = <<"onDisconnected">>)
        /\ (cm.currentState = CONN_CONNECTED /\ now - cm.lastHeartbeat <= cm.heartbeatTimeout
                => StateMachine(cm') = StateMachine(cm) /\ cm'.fired = <<>>)
        /\ (cm.currentState # CONN_CONNECTED => "onDisconnected" \notin Range(cm'.fired))]_vars

\* C9 witness: update() found the heartbeat timed out and invoked
\* onDisconnected.
C9_Witness ==
    /\ cm.op = "update"
    /\ cm.currentState = CONN_DISCONNECTED
    /\ cm.fired = <<"onDisconnected">>
    /\ now - cm.lastHeartbeat > cm.heartbeatTimeout
    /\ cm.lastHeartbeat > 0

\* C10, as claimed: setState(s), disconnect() and reconnect() called in their
\* target state change no field and invoke no callback.
C10_RequestInTargetStateIsNoOp ==
    [][/\ (cm'.op = "setState" /\ SetState(cm.currentState)
                 => StateMachine(cm') = StateMachine(cm) /\ cm'.fired = <<>>)
       /\ (cm'.op = "disconnect" /\ Disconnect /\ cm.currentState = CONN_DISCONNECTED
                 => StateMachine(cm') = StateMachine(cm) /\ cm'.fired = <<>>)
       /\ (cm'.op = "reconnect" /\ Reconnect /\ cm.currentState = CONN_RECONNECTING
                 => StateMachine(cm') = StateMachine(cm) /\ cm'.fired = <<>>)]_vars

\* C10, amended: setState(s) and disconnect() called in their target state
\* change no field and invoke no callback; reconnect() called in Reconnecting
\* invokes no callback and changes nothing but reconnectAttempts (to 0) and
\* reconnectInterval (to 1000); a single call invokes at most one callback, and
\* only when it changed the state; no call invokes a callback twice.
C10_NoOpRequests ==
    [][/\ (cm'.op = "setState" /\ SetState(cm.currentState)
                 => StateMachine(cm') = StateMachine(cm) /\ cm'.fired = <<>>)
       /\ (cm'.op = "disconnect" /\ Disconnect /\ cm.currentState = CONN_DISCONNECTED
                 => StateMachine(cm') = StateMachine(cm) /\ cm'.fired = <<>>)
       /\ (cm'.op = "reconnect" /\ Reconnect /\ cm.currentState = CONN_RECONNECTING
                 => /\ StateMachine(cm') =
                           [StateMachine(cm) EXCEPT !.reconnectAttempts = 0,
                                                    !.reconnectInterval = 1000]
                    /\ cm'.fired = <<>>)
       /\ (cm' # cm /\ cm'.op \in {"update", "setState", "disconnect", "reconnect", "begin"}
                 => /\ Len(cm'.fired) <= 1
                    /\ (cm'.fired # <<>> => cm'.currentState # cm.currentState))
       /\ (\A i, j \in DOMAIN cm'.fired : cm'.fired[i] = cm'.fired[j] => i = j)]_vars

\* C10 witness: reconnect() was called while the machine was Reconnecting (a
\* call from any other state invokes onReconnecting).
C10_Witness ==
    /\ cm.op = "reconnect"
    /\ cm.currentState = CONN_RECONNECTING
    /\ cm.fired = <<>>
    /\ cm.reconnectAttempts = 0
    /\ cm.reconnectInterval = 1000
    /\ cm.lastConnectionAttempt > 0

(***************************************************************************)
(* Properties of the messaging core                                        *)
(***************************************************************************)
\* C11: a pass of loop() that starts on a Connected machine whose heartbeat
\* timeout has already elapsed sends nothing: no message is handed to a
\* characteristic and no audio transfer begins, because the timeout check of
\* update() comes before every send of the pass.
C11_NoSendOnStaleConnection ==
    [][(/\ msg'.op = "loop"
        /\ cm.currentState = CONN_CONNECTED
        /\ isHeartbeatTimeout(cm, now)
        /\ \E in \in LoopInputs : MainLoop(in))
       => msg'.written = <<>> /\ msg'.transfer = "none"]_vars

\* C12: sendCommand, sendStatus and sendAudioData, called while the state
\* machine is not Connected or their characteristic does not exist, return
\* false and hand nothing to a characteristic; sendHeartbeat, here the echo of
\* an inbound heartbeat, writes nothing then.
C12_SendFailsUnlessConnected ==
    [][/\ (/\ msg'.op = "sendCommand"
           /\ ~isConnected(cm) \/ ~msg.commandCharacteristic
           /\ \E command \in CommandChoices : SendCommand(command)
           => ~msg'.ret /\ msg'.written = <<>>)
       /\ (/\ msg'.op = "sendStatus"
           /\ ~isConnected(cm) \/ ~msg.statusCharacteristic
           /\ \E status \in StatusChoices : SendStatus(status)
           => ~msg'.ret /\ msg'.written = <<>>)
       /\ (/\ msg'.op = "sendAudioData"
           /\ ~isConnected(cm) \/ ~msg.audioCharacteristic
           /\ \E length \in AudioLengths : SendAudioData(length)
           => msg'.audioResult = "false" /\ msg'.transfer = "none")
       /\ (/\ msg'.op = "onWrite"
           /\ ~isConnected(cm) \/ ~msg.statusCharacteristic
           /\ OnWrite(serializeJson([type |-> "heartbeat", timestamp |-> 1]))
           => msg'.written = <<>>)]_vars

\* the vocabularies of the wire format
MessageKinds == {"command", "status", "audio_data", "heartbeat", "error", "ack"}

CommandVocabulary ==
    [start_recording |-> CMD_START_RECORDING, stop_recording |-> CMD_STOP_RECORDING,
     haptic_feedback |-> CMD_HAPTIC_FEEDBACK, set_sensitivity |-> CMD_SET_SENSITIVITY,
     calibrate |-> CMD_CALIBRATE, sleep |-> CMD_SLEEP, wake |-> CMD_WAKE,
     reset |-> CMD_RESET]

StatusVocabulary ==
    {"ready", "recording", "processing", "low_battery", "error", "disconnected"}

IsObject(text) == "object" \in DOMAIN text

\* text that is not empty and cannot be decoded: no JSON, or an object whose
\* kind is missing or not one of the six
Undecodable(text) ==
    /\ text # EmptyText
    /\ \/ ~IsObject(text)
       \/ "type" \notin DOMAIN text.object
       \/ text.object.type \notin MessageKinds

\* w is an Error message with this description, handed to the status
\* characteristic
IsErrorMessage(w, description) ==
    /\ w.channel = "status"
    /\ IsObject(w.value)
    /\ w.value.object.type = "error"
    /\ w.value.object.description = description

\* C13: a write that is not empty and cannot be decoded is answered with
\* exactly one Error message whose description is "Invalid message format",
\* and no command or status handler is called.
C13_UndecodableWriteGetsOneError ==
    [][\A value \in InboundWrites :
          (msg'.op = "onWrite" /\ Undecodable(value) /\ OnWrite(value))
          => /\ Len(msg'.written) = 1
             /\ IsErrorMessage(msg'.written[1], "Invalid message format")
             /\ msg'.handled = <<>>]_vars

\* C13 witness: the peer wrote {"type":"bogus"} and one Error message went
\* out.
C13_Witness ==
    /\ msg.op = "onWrite"
    /\ msg.received = serializeJson([type |-> "bogus"])
    /\ Len(msg.written) = 1
    /\ IsErrorMessage(msg.written[1], "Invalid message format")
    /\ msg.handled = <<>>

\* a Command message whose command string is present and not in the
\* vocabulary
UnknownCommand(text) ==
    /\ IsObject(text)
    /\ "type" \in DOMAIN text.object /\ text.object.type = "command"
    /\ "command" \in DOMAIN text.object
    /\ text.object.command \notin DOMAIN CommandVocabulary

\* C14: a Command message with a command string outside the vocabulary
\* calls no handler and sends nothing.
C14_UnknownCommandIsDropped ==
    [][\A value \in InboundWrites :
          (msg'.op = "onWrite" /\ UnknownCommand(value) /\ OnWrite(value))
          => msg'.handled = <<>> /\ msg'.written = <<>>]_vars

\* C14 witness: the peer wrote the command unknown_xyz and nothing happened.
C14_Witness ==
    /\ msg.op = "onWrite"
    /\ UnknownCommand(msg.received)
    /\ msg.received.object.command = "unknown_xyz"
    /\ msg.handled = <<>>
    /\ msg.written = <<>>

\* a message of a recognized kind whose required field is missing or not in
\* the vocabulary: a Status message without a known status string, a Command
\* message without a command string
MissingRequiredField(text) ==
    /\ IsObject(text)
    /\ "type" \in DOMAIN text.object
    /\ \/ /\ text.object.type = "status"
          /\ \/ "status" \notin DOMAIN text.object
             \/ text.object.status \notin StatusVocabulary
       \/ /\ text.object.type = "command"
          /\ "command" \notin DOMAIN text.object

\* C15: a message of a recognized kind whose required field is missing or
\* unrecognized is answered with an Error message.
C15_MissingFieldGetsError ==
    [][\A value \in InboundWrites :
          (msg'.op = "onWrite" /\ MissingRequiredField(value) /\ OnWrite(value))
          => /\ Len(msg'.written) = 1
             /\ msg'.written[1].value.object.type = "error"]_vars

\* a step of the messaging core: an inbound write or a send operation
MessagingStep ==
    \/ msg'.op = "onWrite" /\ \E value \in InboundWrites : OnWrite(value)
    \/ msg'.op = "sendCommand" /\ \E command \in CommandChoices : SendCommand(command)
    \/ msg'.op = "sendStatus" /\ \E status \in StatusChoices : SendStatus(status)
    \/ msg'.op = "sendAudioData" /\ \E length \in AudioLengths : SendAudioData(length)
    \/ msg.transfer # "none" /\ (AudioChunk \/ SendAudioDataReturn)

\* C16, as claimed: every inbound write and every send operation leaves the
\* state, the reconnect policy and the heartbeat timestamp of the state
\* machine as they are.
C16_MessagingLeavesStateMachine ==
    [][MessagingStep => StateMachine(cm') = StateMachine(cm)]_vars

\* a well-formed reset command
IsResetCommand(text) ==
    /\ IsObject(text)
    /\ "type" \in DOMAIN text.object /\ text.object.type = "command"
    /\ "command" \in DOMAIN text.object /\ text.object.command = "reset"

\* C16, amended: every send operation and every inbound write other than a
\* reset command leaves the state machine exactly as it is; a reset command
\* restarts the device, after which the state machine is the newly
\* constructed one (Disconnected, no attempts, initial interval).
C16_MessagingLeavesStateMachineUnlessReset ==
    [][MessagingStep =>
          IF msg'.op = "onWrite" /\ IsResetCommand(msg'.received)
          THEN cm' = ConnectionManagerCtor /\ ~systemReady'
          ELSE cm' = cm]_vars

\* C16 witness: the peer wrote text that does not parse while the machine was
\* Connected, and the machine is still Connected.
C16_Witness ==
    /\ msg.op = "onWrite"
    /\ Undecodable(msg.received)
    /\ msg.written # <<>>
    /\ cm.currentState = CONN_CONNECTED
    /\ cm.fired = <<"onConnected">>

\* the message type the text of each create function is decoded to
KindOf ==
    [createCommandMessage |-> MSG_COMMAND, createStatusMessage |-> MSG_STATUS,
     createErrorMessage |-> MSG_ERROR, createHeartbeatMessage |-> MSG_HEARTBEAT]

UnrecognizedKind(text) ==
    /\ IsObject(text)
    /\ \/ "type" \notin DOMAIN text.object
       \/ text.object.type \notin MessageKinds

\* a payload whose command string is missing or not in the vocabulary
UnrecognizedCommand(text) ==
    /\ IsObject(text)
    /\ \/ "command" \notin DOMAIN text.object
       \/ text.object.command \notin DOMAIN CommandVocabulary

\* the caller's variables
Outputs(c) == <<c.type, c.payload, c.commandOut, c.statusOut, c.dataOut>>

\* C18: parseMessage given an unrecognized kind, and parseCommand given an
\* unrecognized command string, return false and leave every output
\* parameter as it was.
C18_FailedParseLeavesOutputs ==
    [][/\ (codec'.step = "parseMessage" /\ UnrecognizedKind(codec.json) /\ ParseMessage
           => ~codec'.ok /\ Outputs(codec') = Outputs(codec))
       /\ (codec'.step = "parseCommand" /\ UnrecognizedCommand(codec.payload) /\ ParseCommand
           => ~codec'.ok /\ Outputs(codec') = Outputs(codec))]_vars

\* C18 witness: parseCommand was given unknown_xyz while the caller's
\* variables held earlier results.
C18_Witness ==
    /\ codec.step = "parseCommand"
    /\ ~codec.ok
    /\ codec.stale
    /\ codec.json = serializeJson([type |-> "command", command |-> "unknown_xyz"])
    /\ codec.commandOut = CMD_WAKE
    /\ codec.dataOut = "stale"

\* the slices of a payload of this length: ceil(length / 512) of them, 512
\* bytes each but the last
ExpectedChunks(length) ==
    LET n == (length + 511) \div 512
    IN  [i \in 1..n |-> [offset |-> 512 * (i - 1),
                         size |-> IF i < n THEN 512 ELSE length - 512 * (n - 1)]]

\* C19: every iteration of the loop of sendAudioData hands the next slice of
\* the payload to the audio characteristic and advances offset, never beyond
\* length; when sendAudioData returns, the slices are exactly
\* ExpectedChunks(length) and it returns true.
C19_ChunksAreSlices ==
    [][/\ (msg.transfer # "none" /\ AudioChunk
           => /\ msg'.offset > msg.offset
              /\ msg'.offset <= msg.length
              /\ Len(msg'.chunks) = Len(msg.chunks) + 1
              /\ \A i \in DOMAIN msg'.chunks :
                     msg'.chunks[i] = ExpectedChunks(msg.length)[i])
       /\ (msg.transfer # "none" /\ SendAudioDataReturn
           => /\ Len(msg.chunks) = (msg.length + 511) \div 512
              /\ \A i \in DOMAIN msg.chunks :
                     msg.chunks[i] = ExpectedChunks(msg.length)[i]
              /\ msg'.chunks = msg.chunks
              /\ msg'.audioResult = "true")]_vars

\* C19 witness: 1500 bytes went out as 512, 512 and 476 bytes with the peer
\* attached, and sendAudioData returned true.
C19_Witness ==
    /\ msg.audioResult = "true"
    /\ msg.length = 1500
    /\ ble.deviceConnected
    /\ msg.chunks = <<[offset |-> 0, size |-> 512], [offset |-> 512, size |-> 512],
                      [offset |-> 1024, size |-> 476]>>

\* C20: once the peer has detached during sendAudioData, no further chunk is
\* handed to the audio characteristic and the call does not return true.
C20_TransferAbortsOnDetach ==
    [][msg.transfer # "none" /\ ~ble.deviceConnected
          => msg'.chunks = msg.chunks /\ msg'.audioResult # "true"]_vars

\* w is a Heartbeat message handed to the status characteristic
IsHeartbeatMessage(w) ==
    /\ w.channel = "status"
    /\ IsObject(w.value)
    /\ w.value.object.type = "heartbeat"

\* a message of kind Heartbeat
IsHeartbeat(text) ==
    /\ IsObject(text)
    /\ "type" \in DOMAIN text.object /\ text.object.type = "heartbeat"

\* C21: a write decoded as a Heartbeat message, arriving while the peer is
\* attached, makes onWrite hand exactly one Heartbeat message to the status
\* characteristic before it returns: nothing else is sent and no handler is
\* called.
C21_HeartbeatIsEchoedOnce ==
    [][\A value \in InboundWrites :
          (msg'.op = "onWrite" /\ IsHeartbeat(value) /\ ble.deviceConnected
               /\ OnWrite(value))
          => /\ Len(msg'.written) = 1
             /\ IsHeartbeatMessage(msg'.written[1])
             /\ msg'.counter = msg.counter + 1
             /\ msg'.handled = <<>>]_vars

\* C21 witness: the peer wrote a Heartbeat message and one Heartbeat message
\* went back.
C21_Witness ==
    /\ msg.op = "onWrite"
    /\ IsHeartbeat(msg.received)
    /\ ble.deviceConnected
    /\ Len(msg.written) = 1
    /\ IsHeartbeatMessage(msg.written[1])

\* C22: a pass of loop() that runs with the peer attached and the state
\* machine Connected sends a periodic heartbeat exactly when more than the
\* heartbeat interval configured in the state machine has elapsed since the
\* last periodic heartbeat (echoes do not move that timestamp).
C22_PeriodicHeartbeatFollowsConfiguredInterval ==
    [][(/\ msg'.op = "loop"
        /\ ble.deviceConnected
        /\ isConnected(cm) /\ isConnected(cm')
        /\ \E in \in LoopInputs : MainLoop(in))
       => ((\E i \in DOMAIN msg'.written : IsHeartbeatMessage(msg'.written[i]))
              <=> now - msg.lastHeartbeat > cm.heartbeatInterval)]_vars

\* a create function is applied in this step
CreateStep ==
    codec'.step = "create"
        /\ (CreateCommand \/ CreateStatus \/ CreateError \/ CreateHeartbeat)

\* C23: every message a create function makes takes the next value of the
\* counter and carries it in its id; a message created after another has a
\* larger counter value and a different id, so the same input encoded twice
\* gives two texts that differ.
C23_IdsFollowTheCounter ==
    [][CreateStep =>
          /\ msg'.counter = msg.counter + 1
          /\ codec'.json.object.id = <<ChipId, msg'.counter>>
          /\ (codec.origin \in DOMAIN KindOf =>
                  /\ codec'.json.object.id[2] > codec.json.object.id[2]
                  /\ codec'.json.object.id # codec.json.object.id
                  /\ codec'.json # codec.json)]_vars

\* C23 witness: the same command was encoded twice and the second text
\* carries the second counter value.
C23_Witness ==
    /\ codec.step = "create"
    /\ codec.origin = "createCommandMessage"
    /\ msg.counter = 2
    /\ codec.json.object.id = <<ChipId, 2>>

(***************************************************************************)
(* Properties of the explicit requests and of the timeouts                 *)
(***************************************************************************)
\* C25: reconnect(), in whatever state it is called, leaves the machine
\* Reconnecting with reconnectAttempts = 0 and the reconnect interval at the
\* value the constructor gives it.
C25_ReconnectResets ==
    [][(cm'.op = "reconnect" /\ Reconnect)
       => /\ cm'.currentState = CONN_RECONNECTING
          /\ cm'.reconnectAttempts = 0
          /\ cm'.reconnectInterval = ConnectionManagerCtor.reconnectInterval]_vars

\* C25 witness: reconnect() was called in Error after attempts had been
\* counted and the interval had grown.
C25_Witness ==
    /\ cm.op = "reconnect"
    /\ cm.fired = <<"onReconnecting">>
    /\ cm.currentState = CONN_RECONNECTING
    /\ cm.reconnectAttempts = 0
    /\ cm.reconnectInterval = 1000
    /\ cm.lastConnectionAttempt > 0

\* C26: disconnect(), in whatever state it is called, leaves the machine
\* Disconnected and changes nothing else: reconnectAttempts, the interval and
\* the attempt timestamp stay and no callback is invoked.
C26_DisconnectHasNoSideEffect ==
    [][(cm'.op = "disconnect" /\ Disconnect)
       => /\ cm'.currentState = CONN_DISCONNECTED
          /\ StateMachine(cm') = StateMachine([cm EXCEPT !.currentState = CONN_DISCONNECTED])
          /\ cm'.fired = <<>>]_vars

\* C30: a tick in Advertising or Connecting moves the machine to
\* Reconnecting exactly when more than connectionTimeout has elapsed since
\* lastConnectionAttempt, and otherwise changes nothing; the move changes
\* only the state and invokes no callback.
C30_AttemptTimeoutHasNoSideEffect ==
    [][(cm.currentState \in {CONN_ADVERTISING, CONN_CONNECTING} /\ Tick)
       => IF now - cm.lastConnectionAttempt > cm.connectionTimeout
          THEN /\ StateMachine(cm')
                      = StateMachine([cm EXCEPT !.currentState = CONN_RECONNECTING])
               /\ cm'.fired = <<>>
          ELSE StateMachine(cm') = StateMachine(cm) /\ cm'.fired = <<>>]_vars

\* C24: with no peer attaching a tick moves the machine into Error only
\* after maxReconnectAttempts attempts, never fewer or more, and that tick
\* invokes onConnectionFailed once.
C24_ErrorAfterMaxAttemptsNotifiesOnce ==
    [][(Tick /\ cm.currentState # CONN_ERROR /\ cm'.currentState = CONN_ERROR)
       => /\ cm.reconnectAttempts = cm.maxReconnectAttempts
          /\ cm'.reconnectAttempts = cm.reconnectAttempts
          /\ cm'.fired = <<"onConnectionFailed">>]_vars

\* C27: under the default tuning a tick in Disconnected with more than the
\* reconnect interval elapsed gives Reconnecting; the tick in Reconnecting
\* with the interval elapsed and no attempt made yet gives Advertising with
\* reconnectAttempts = 1 and an interval of 2000 ms; and after the k-th
\* attempt in a row the interval is min(1000 * 2^k, 30000) ms.
C27_DefaultBackoffScenario ==
    [][Tick =>
          /\ (/\ cm.currentState = CONN_DISCONNECTED
              /\ now - cm.lastConnectionAttempt > cm.reconnectInterval
              => cm'.currentState = CONN_RECONNECTING)
          /\ (/\ cm.currentState = CONN_RECONNECTING
              /\ cm.reconnectAttempts = 0
              /\ now - cm.lastConnectionAttempt > cm.reconnectInterval
              => /\ cm'.currentState = CONN_ADVERTISING
                 /\ cm'.reconnectAttempts = 1
                 /\ cm'.reconnectInterval = 2000
                 /\ cm'.lastConnectionAttempt = now)
          /\ (cm.currentState = CONN_RECONNECTING /\ cm'.currentState = CONN_ADVERTISING
              => /\ cm'.reconnectAttempts = cm.reconnectAttempts + 1
                 /\ cm'.reconnectInterval
                        = Min(1000 * 2^(cm'.reconnectAttempts), 30000))]_vars

\* C27 witness: the sixth attempt in a row has started and the interval is
\* 30 s for the second time.
C27_Witness ==
    /\ cm.op = "update"
    /\ cm.currentState = CONN_ADVERTISING
    /\ cm.reconnectAttempts = 6
    /\ cm.reconnectInterval = 30000
    /\ cm.lastConnectionAttempt = now

\* C28: a command or status handler is never called inside a pass of loop()
\* whose connectionManager.update() has not completed yet: the update of a
\* pass comes before every dispatch of that pass.
C28_DispatchFollowsUpdate ==
    [][(/\ msg'.op = "onWrite"
        /\ msg'.handled # <<>>
        /\ \E value \in InboundWrites : OnWrite(value))
       => msg.pass # "button"]_vars

(***************************************************************************)
(* Properties of the vocabularies                                          *)
(***************************************************************************)
\* the six status strings and their values
StatusTable ==
    [ready |-> STATUS_READY, recording |-> STATUS_RECORDING,
     processing |-> STATUS_PROCESSING, low_battery |-> STATUS_LOW_BATTERY,
     error |-> STATUS_ERROR, disconnected |-> STATUS_DISCONNECTED]

\* the string member key of a payload, "" when the payload has none
StringMember(text, key) ==
    IF IsObject(text) /\ key \in DOMAIN text.object THEN text.object[key] ELSE ""

Injective(f) == \A a, b \in DOMAIN f : f[a] = f[b] => a = b

\* C29: parseCommand succeeds exactly when the command string of the payload
\* is one of the eight, and parseStatus exactly when the status string is one
\* of the six; each gives the value of its string, no two strings share a
\* value, and createStatusMessage writes the string of the status it is
\* given.
C29_Vocabularies ==
    /\ Cardinality(DOMAIN CommandVocabulary) = 8 /\ Injective(CommandVocabulary)
    /\ DOMAIN StatusTable = StatusVocabulary
    /\ Cardinality(StatusVocabulary) = 6 /\ Injective(StatusTable)
    /\ (codec.step = "parseCommand" =>
            LET commandStr == StringMember(codec.payload, "command")
            IN  /\ codec.ok <=> commandStr \in DOMAIN CommandVocabulary
                /\ codec.ok => codec.commandOut = CommandVocabulary[commandStr])
    /\ (codec.step = "parseStatus" =>
            LET statusStr == StringMember(codec.payload, "status")
            IN  /\ codec.ok <=> statusStr \in StatusVocabulary
                /\ codec.ok => codec.statusOut = StatusTable[statusStr])
    /\ (codec.origin = "createStatusMessage" =>
            /\ codec.json.object.status \in StatusVocabulary
            /\ StatusTable[codec.json.object.status] = codec.status)

\* C29 witness: parseStatus was given the text createStatusMessage made for
\* STATUS_DISCONNECTED.
C29_Witness ==
    /\ codec.origin = "createStatusMessage"
    /\ codec.step = "parseStatus"
    /\ codec.ok
    /\ codec.json.object.status = "disconnected"
    /\ codec.statusOut = STATUS_DISCONNECTED

(***************************************************************************)
(* Properties of the Reconnecting state                                    *)
(***************************************************************************)
\* a tick in Reconnecting with attempts left starts an attempt exactly when
\* the backoff interval has elapsed, and changes nothing before that
AttemptOnceBackoffElapsed ==
    IF now - cm.lastConnectionAttempt > cm.reconnectInterval
    THEN /\ cm'.currentState = CONN_ADVERTISING
         /\ cm'.reconnectAttempts = cm.reconnectAttempts + 1
         /\ cm'.lastConnectionAttempt = now
    ELSE StateMachine(cm') = StateMachine(cm)

\* C31 as stated: a tick in Reconnecting with reconnectAttempts >=
\* maxReconnectAttempts moves the machine to Error whether or not the backoff
\* interval has elapsed; with attempts left a tick starts an attempt
\* (Advertising, reconnectAttempts + 1, attempt time marked) only once the
\* backoff interval has elapsed.
C31_ErrorIrrespectiveOfBackoff ==
    [][(cm.currentState = CONN_RECONNECTING /\ Tick)
       => IF cm.reconnectAttempts >= cm.maxReconnectAttempts
          THEN cm'.currentState = CONN_ERROR
          ELSE AttemptOnceBackoffElapsed]_vars

\* C31 amended: a tick in Reconnecting does nothing until the backoff
\* interval has elapsed since lastConnectionAttempt; once it has, the tick
\* moves the machine to Error when reconnectAttempts >= maxReconnectAttempts
\* and starts an attempt otherwise.
C31_ErrorOnceBackoffElapsed ==
    [][(cm.currentState = CONN_RECONNECTING /\ Tick)
       => IF cm.reconnectAttempts >= cm.maxReconnectAttempts
          THEN IF now - cm.lastConnectionAttempt > cm.reconnectInterval
               THEN /\ cm'.currentState = CONN_ERROR
                    /\ cm'.reconnectAttempts = cm.reconnectAttempts
               ELSE StateMachine(cm') = StateMachine(cm)
          ELSE AttemptOnceBackoffElapsed]_vars

\* C31 witness: update() ran in Reconnecting with no attempt left before the
\* backoff interval had elapsed, and the machine is still Reconnecting.
C31_Witness ==
    /\ cm.op = "update"
    /\ cm.fired = <<>>
    /\ cm.currentState = CONN_RECONNECTING
    /\ cm.reconnectAttempts >= cm.maxReconnectAttempts
    /\ cm.reconnectAttempts > 0
    /\ now - cm.lastConnectionAttempt <= cm.reconnectInterval
    /\ now > cm.lastConnectionAttempt

(***************************************************************************)
(* Properties of the transport                                             *)
(***************************************************************************)
\* C32: whenever no peer is attached and the BLE stack is not advertising,
\* advertising is eventually restarted, whatever the order of the onConnect
\* and onDisconnect callbacks and of the passes of loop().
C32_AdvertisingRestarts ==
    (systemReady /\ ~ble.deviceConnected /\ ~ble.advertising) ~> ble.advertising

(***************************************************************************)
(* Properties of the heartbeats from the peer                              *)
(***************************************************************************)
\* C33: while the state machine is Connected, every Heartbeat message the
\* peer delivers refreshes the heartbeat timestamp of the state machine, and
\* a pass of loop() that runs no more than heartbeatTimeout after the last
\* of them leaves the machine Connected.
C33_InboundHeartbeatKeepsConnected ==
    [][/\ (/\ msg'.op = "onWrite"
           /\ isConnected(cm)
           /\ \E value \in InboundWrites : IsHeartbeat(value) /\ OnWrite(value)
           => cm'.lastHeartbeat = now)
       /\ (/\ msg'.op = "loop"
           /\ isConnected(cm)
           /\ msg.heardAt > 0
           /\ now - msg.heardAt <= cm.heartbeatTimeout
           /\ MainLoop(QuietInput)
           => isConnected(cm'))]_vars

\* a tick starts an advertising attempt
AttemptStarts ==
    Tick /\ cm.currentState = CONN_RECONNECTING /\ cm'.currentState = CONN_ADVERTISING

\* C34: within one reconnect sequence the attempt mark and the backoff
\* interval change only when a tick starts an attempt, so an attempt starts
\* more than the interval in effect since the earlier attempt after the start
\* of that attempt; a tick that enters Reconnecting, from Disconnected or
\* from an attempt timeout, leaves the mark as it is; and a tick in
\* Reconnecting with an attempt left and the interval already elapsed since
\* the mark starts the attempt.
C34_BackoffMeasuredFromLastAttempt ==
    [][/\ (AttemptStarts =>
              /\ now - cm.lastConnectionAttempt > cm.reconnectInterval
              /\ cm'.lastConnectionAttempt = now)
       /\ (Tick /\ cm.currentState # CONN_RECONNECTING
                /\ cm'.currentState = CONN_RECONNECTING =>
              /\ cm'.lastConnectionAttempt = cm.lastConnectionAttempt
              /\ cm'.reconnectInterval = cm.reconnectInterval)
       /\ (/\ Tick
           /\ cm.currentState = CONN_RECONNECTING
           /\ cm.reconnectAttempts < cm.maxReconnectAttempts
           /\ now - cm.lastConnectionAttempt > cm.reconnectInterval
           => cm'.currentState = CONN_ADVERTISING)
       /\ (\/ cm'.lastConnectionAttempt # cm.lastConnectionAttempt
           \/ cm'.reconnectInterval # cm.reconnectInterval
           => AttemptStarts \/ cm'.op = "begin")]_vars

\* C34 witness: the third attempt of a sequence has just started, 20 s after
\* the second: the attempt timeout of 10 s had consumed the backoff of 4 s,
\* and the tick after the one that entered Reconnecting started the attempt.
C34_Witness ==
    /\ cm.op = "update"
    /\ cm.currentState = CONN_ADVERTISING
    /\ cm.reconnectAttempts = 3
    /\ cm.reconnectInterval = 8000
    /\ cm.lastConnectionAttempt = now
    /\ now >= 3 * BackoffStep

(***************************************************************************)
(* Properties of the reset                                                 *)
(***************************************************************************)
\* C35: begin(), in whatever state it is called, leaves the machine
\* Disconnected with reconnectAttempts = 0 and the reconnect interval at the
\* value the constructor gives it, changes nothing else and invokes no
\* callback; the ticks that follow count their attempts from there: every
\* attempt adds one to reconnectAttempts while it is below
\* maxReconnectAttempts, and a tick enters Error only when it is not.
C35_BeginResets ==
    [][/\ (cm'.op = "begin" /\ Begin =>
              /\ cm'.fired = <<>>
              /\ StateMachine(cm')
                   = StateMachine(
                       [cm EXCEPT !.currentState = CONN_DISCONNECTED,
                                  !.reconnectAttempts = 0,
                                  !.reconnectInterval
                                      = ConnectionManagerCtor.reconnectInterval]))
       /\ (AttemptStarts =>
              /\ cm.reconnectAttempts < cm.maxReconnectAttempts
              /\ cm'.reconnectAttempts = cm.reconnectAttempts + 1)
       /\ (Tick /\ cm.currentState # CONN_ERROR /\ cm'.currentState = CONN_ERROR =>
              cm.reconnectAttempts >= cm.maxReconnectAttempts)]_vars

\* C35 witness: begin() was called after attempts had been made under a
\* configured maximum of two, and the machine is Disconnected with the count
\* and the interval reset.
C35_Witness ==
    /\ cm.op = "begin"
    /\ cm.currentState = CONN_DISCONNECTED
    /\ cm.reconnectAttempts = 0
    /\ cm.reconnectInterval = 1000
    /\ cm.maxReconnectAttempts = 2
    /\ cm.lastConnectionAttempt > 0

\* C36: a long press in Error forces the machine to Advertising through
\* setState and leaves reconnectAttempts and the attempt mark as they are;
\* with no attempt left no tick starts an attempt, and the tick that takes
\* the machine back to Error invokes onConnectionFailed again.
C36_ForcedAdvertisingFallsBackToError ==
    [][/\ (cm'.op = "loop" /\ cm.currentState = CONN_ERROR /\ Loop("longPress") =>
              /\ cm'.currentState \in {CONN_ADVERTISING, CONN_RECONNECTING}
              /\ cm'.reconnectAttempts = cm.reconnectAttempts
              /\ cm'.lastConnectionAttempt = cm.lastConnectionAttempt)
       /\ (Tick /\ cm.reconnectAttempts >= cm.maxReconnectAttempts =>
              /\ cm'.reconnectAttempts = cm.reconnectAttempts
              /\ cm'.lastConnectionAttempt = cm.lastConnectionAttempt)
       /\ (Tick /\ cm.currentState # CONN_ERROR /\ cm'.currentState = CONN_ERROR =>
              cm'.fired = <<"onConnectionFailed">>)]_vars

(***************************************************************************)
(* Properties of the sends                                                 *)
(***************************************************************************)
\* what a send leaves alone when it fails: the message id counter, the
\* heartbeat timer and the timers of main.cpp
Untouched(m) ==
    <<m.counter, m.lastHeartbeat, m.lastStatusUpdate, m.lastBatteryCheck,
      m.audioCharacteristic, m.commandCharacteristic, m.statusCharacteristic>>

\* C37: sendCommand, sendStatus and sendAudioData, called while no peer is
\* attached or their characteristic does not exist, return false, hand
\* nothing to any characteristic, start no transfer and leave the message id
\* counter as it was.
C37_FailedSendHasNoEffect ==
    [][/\ (/\ msg'.op = "sendCommand"
           /\ ~ble.deviceConnected \/ ~msg.commandCharacteristic
           /\ \E command \in CommandChoices : SendCommand(command)
           => /\ ~msg'.ret /\ msg'.written = <<>> /\ msg'.handled = <<>>
              /\ Untouched(msg') = Untouched(msg))
       /\ (/\ msg'.op = "sendStatus"
           /\ ~ble.deviceConnected \/ ~msg.statusCharacteristic
           /\ \E status \in StatusChoices : SendStatus(status)
           => /\ ~msg'.ret /\ msg'.written = <<>> /\ msg'.handled = <<>>
              /\ Untouched(msg') = Untouched(msg))
       /\ (/\ msg'.op = "sendAudioData"
           /\ ~ble.deviceConnected \/ ~msg.audioCharacteristic
           /\ \E length \in AudioLengths : SendAudioData(length)
           => /\ msg'.audioResult = "false" /\ msg'.transfer = "none"
              /\ msg'.written = <<>> /\ msg'.chunks = <<>>
              /\ Untouched(msg') = Untouched(msg))]_vars

\* C37 witness: sendStatus failed with the peer detached after two messages
\* had gone out, and the counter still stands at two.
C37_Witness ==
    /\ msg.op = "sendStatus"
    /\ ~msg.ret
    /\ ~ble.deviceConnected
    /\ msg.statusCharacteristic
    /\ msg.written = <<>>
    /\ msg.counter = 2

\* C38: sendStatus, called with the peer attached and the status
\* characteristic in place, returns true and hands one Status message to the
\* status characteristic whatever the string: the message carries the string
\* itself when it is one of the six status strings and "ready" when it is
\* not.
C38_UnknownStatusIsSentAsReady ==
    [][\A status \in StatusArguments :
          (/\ msg'.op = "sendStatus"
           /\ ble.deviceConnected /\ msg.statusCharacteristic
           /\ SendStatus(status))
          => /\ msg'.ret
             /\ Len(msg'.written) = 1
             /\ msg'.written[1].channel = "status"
             /\ msg'.written[1].value.object.type = "status"
             /\ msg'.written[1].value.object.status
                    = IF status \in StatusVocabulary THEN status ELSE "ready"]_vars

\* C38 witness: sendStatus("test_status"), the call of testBLEManager,
\* returned true and a Status message "ready" went out.
C38_Witness ==
    /\ msg.op = "sendStatus"
    /\ msg.argument = "test_status"
    /\ msg.ret
    /\ Len(msg.written) = 1
    /\ msg.written[1].value.object.status = "ready"

(***************************************************************************)
(* Properties of the clock                                                 *)
(***************************************************************************)
\* the time that has really passed since the timestamp mark was taken.  Where
\* the clock wraps, it and every timestamp stay within WrapLead + MaxNow of
\* 2^32, where the integers that stand for them are in the order of time.
TrueElapsed(mark) == now - mark

\* C39: across the wraparound of millis() every guard of update() decides by
\* the time that has really passed: the tick leaves Disconnected exactly
\* when more than the reconnect interval has passed since the attempt mark,
\* Advertising and Connecting exactly when more than connectionTimeout has,
\* Reconnecting exactly when more than the backoff interval has, and
\* Connected exactly when more than heartbeatTimeout has passed since the
\* heartbeat timestamp.
C39_GuardsMeasureTrueElapsedTime ==
    [][(cm'.op = "update" /\ Update) =>
          /\ (cm.currentState = CONN_DISCONNECTED =>
                 (cm'.currentState = CONN_RECONNECTING
                      <=> TrueElapsed(cm.lastConnectionAttempt) > cm.reconnectInterval))
          /\ (cm.currentState \in {CONN_ADVERTISING, CONN_CONNECTING} =>
                 (cm'.currentState = CONN_RECONNECTING
                      <=> TrueElapsed(cm.lastConnectionAttempt) > cm.connectionTimeout))
          /\ (cm.currentState = CONN_RECONNECTING =>
                 (cm'.currentState # CONN_RECONNECTING
                      <=> TrueElapsed(cm.lastConnectionAttempt) > cm.reconnectInterval))
          /\ (cm.currentState = CONN_CONNECTED =>
                 (cm'.currentState = CONN_DISCONNECTED
                      <=> TrueElapsed(cm.lastHeartbeat) > cm.heartbeatTimeout))]_vars

\* C39 witness: the heartbeat timestamp was taken before the clock wrapped,
\* and a tick after the wrap, more than heartbeatTimeout later, found the
\* timeout.
C39_Witness ==
    /\ cm.op = "update"
    /\ cm.fired = <<"onDisconnected">>
    /\ cm.currentState = CONN_DISCONNECTED
    /\ Gt32(cm.lastHeartbeat, now)
    /\ now >= 0
    /\ TrueElapsed(cm.lastHeartbeat) > cm.heartbeatTimeout

(***************************************************************************)
(* Properties of the audio codec                                           *)
(***************************************************************************)
\* the characters of text that are hexadecimal digits
HexCharacters(text) == SelectSeq(text, LAMBDA ch : hexValue(ch) >= 0)

\* C40: encodeAudioData writes every byte as two hexadecimal digits and a
\* line break after every 64 bytes that are followed by another;
\* decodeAudioData of that String returns true and gives back the payload
\* and its length; decodeAudioData of a String of hexadecimal digits, line
\* breaks and spaces with an odd number of digits returns false and leaves
\* the buffer and the length as they were.
C40_AudioRoundTrip ==
    /\ (codec.step \in {"encode", "decode"} /\ codec.origin = "encodeAudioData" =>
            /\ Len(cleanedOf(codec.encoded)) = 2 * Len(codec.data)
            /\ \A j \in DOMAIN codec.encoded :
                   IF j % (2 * 64 + 1) = 0
                   THEN codec.encoded[j] = "\n"
                   ELSE hexValue(codec.encoded[j]) >= 0
            /\ Len(codec.encoded) > 0 => codec.encoded[Len(codec.encoded)] # "\n")
    /\ (codec.step = "decode" /\ codec.origin = "encodeAudioData" =>
            /\ codec.ok
            /\ codec.length = Len(codec.data)
            /\ SubSeq(codec.buffer, 1, codec.length) = codec.data
            /\ \A i \in DOMAIN codec.buffer :
                   i > codec.length => codec.buffer[i] = codec.buffer0[i])
    /\ (/\ codec.step = "decode" /\ codec.origin = "peer"
        /\ Len(HexCharacters(codec.encoded)) % 2 = 1
        /\ Len(HexCharacters(codec.encoded)) = Len(cleanedOf(codec.encoded))
        => /\ ~codec.ok
           /\ codec.buffer = codec.buffer0
           /\ codec.length = codec.length0)

\* C40 witness: a payload of 65 bytes, bytes below 16 among them, came back
\* from decodeAudioData of its encoding, which has one line break.
C40_Witness ==
    /\ codec.step = "decode"
    /\ codec.origin = "encodeAudioData"
    /\ Len(codec.data) = 65
    /\ \E i \in DOMAIN codec.data : codec.data[i] < 16
    /\ Len(codec.encoded) = 2 * 65 + 1
    /\ codec.ok
    /\ SubSeq(codec.buffer, 1, codec.length) = codec.data

====
